---------------------------- MODULE Spec2Model ----------------------------
(***************************************************************************)
(* Session / telemetry synchronisation layer of the MCconnect desktop UI:  *)
(*   - App.tsx       the Connection Reconciler (checkActiveConnection and  *)
(*                   the two onConnectionChange callbacks),                *)
(*   - Client.tsx    the Client workflow (restoreState effect, handleJoin),*)
(*   - Host.tsx      the Host workflow (detection effect, handleStart),    *)
(*   - LogPanel.tsx  the Log Aggregator (globalLogs, initLogListener).     *)
(*                                                                         *)
(* Every asynchronous handler is split at its await: one action issues the *)
(* backend call, one action per pending call runs the continuation with    *)
(* the backend's answer.  The backend is the environment: it may give any  *)
(* answer of the call's type, at any later time, in any order.             *)
(*                                                                         *)
(* A JavaScript value that may be null is modelled as a sequence of length *)
(* at most one: None for null, Some(x) for x.  The UI's message texts are  *)
(* Chinese literals in the source; the model uses ASCII glosses of them.   *)
(***************************************************************************)
EXTENDS Integers, Sequences, FiniteSets, Bags, TLC

VARIABLES
    \* ---- App.tsx
    view,             \* useState<View>                     App.tsx:18
    connectionState,  \* useState<ConnectionState>          App.tsx:21
    checkPending,     \* checkActiveConnection calls awaiting get_lobby_id
    \* ---- Client.tsx (the mounted Client instance)
    cLobbyId,         \* useState('')  lobby id input       Client.tsx:41
    cStatus,          \* useState('idle')                   Client.tsx:43
    cMessage,         \* useState('')                       Client.tsx:44
    cRestore,         \* restoreState calls awaiting get_lobby_id
    cJoin,            \* handleJoin calls awaiting join_lobby
    \* ---- Host.tsx (the mounted Host instance)
    hPort,            \* useState('25565')                  Host.tsx:30
    hStatus,          \* useState('idle')                   Host.tsx:31
    hMessage,         \* useState(...)                      Host.tsx:32
    hLobbyId,         \* useState<string | null>(null)      Host.tsx:33
    detecting,        \* useState(true)                     Host.tsx:36
    detectedServer,   \* useState<MinecraftServerInfo|null> Host.tsx:37
    detectionAttempts,\* useState(0)                        Host.tsx:38
    detectionIntervalRef, \* useRef: does .current hold a registered interval
    hIntervals,       \* number of detection intervals registered and not cleared
    hDetect,          \* performDetection calls awaiting detect_minecraft_server
    hStart,           \* handleStart calls awaiting start_host
    hSettle,          \* setTimeout(..., 1000) callbacks not yet run
    hFetch,           \* settle callbacks awaiting get_lobby_id
    \* ---- LogPanel.tsx
    globalLogs,       \* let globalLogs: LogEntry[]         LogPanel.tsx:25
    logIdCounter,     \* let logIdCounter                   LogPanel.tsx:26
    listenerInitialized, \* let listenerInitialized         LogPanel.tsx:27
    listenPending,    \* listen() calls awaiting the backend
    subscribed,       \* number of log callbacks registered with the stream
    showLogs,         \* useState(false)                     App.tsx:20
    logs,             \* useState<LogEntry[]>(globalLogs)   LogPanel.tsx:53
    created,          \* ids of the entries created so far, in creation order
    \* ---- timers and telemetry
    appIntervals,     \* App's setInterval registrations not cleared   App.tsx:62
    viewerIntervals,  \* LogPanel's sync intervals not cleared    LogPanel.tsx:61
    cMetricsIntervals,\* Client's metrics intervals not cleared   Client.tsx:134
    hMetricsIntervals,\* Host's metrics intervals not cleared       Host.tsx:139
    filter,           \* useState<string>("all")                  LogPanel.tsx:54
    panel,            \* the metrics the mounted view holds, and their rendering
    fetched,          \* get_performance_metrics calls made by the last step
    \* ---- Client.tsx: LAN discovery
    discoveryStatus,  \* useState('idle')                         Client.tsx:47
    lanServer,        \* useState<LanServer | null>(null)         Client.tsx:46
    cDiscover,        \* handleDiscover calls awaiting detect_minecraft_server
    \* ---- observation
    calls,            \* backend calls / parent callbacks made by the last step
    lastOp            \* the last step: <<handler, its inputs>>

appVars    == <<view, connectionState, checkPending>>
clientVars == <<cLobbyId, cStatus, cMessage, cRestore, cJoin>>
hostVars   == <<hPort, hStatus, hMessage, hLobbyId, detecting, detectedServer,
                detectionAttempts, detectionIntervalRef, hIntervals, hDetect,
                hStart,
                hSettle, hFetch>>
logVars    == <<globalLogs, logIdCounter, listenerInitialized, listenPending,
                subscribed, showLogs, logs, created>>
uiVars     == <<appIntervals, viewerIntervals, cMetricsIntervals,
                hMetricsIntervals, filter, panel, fetched>>
discVars   == <<discoveryStatus, lanServer, cDiscover>>
vars       == <<appVars, clientVars, hostVars, logVars, uiVars, discVars, calls,
                lastOp>>

-----------------------------------------------------------------------------
(* Bounds of the model *)

\* at most this many checkActiveConnection calls await the backend at a time
MaxChecks == 2
\* at most this many restoreState calls await the backend at a time
MaxRestores == 1
\* at most this many handleJoin calls await the backend at a time
MaxJoins == 1
\* at most this many performDetection calls await the backend at a time
MaxDetects == 2
\* at most this many handleStart calls are between start_host and the end of
\* their lobby id fetch at a time
MaxStarts == 1
\* at most this many handleDiscover calls await the backend at a time
MaxDiscovers == 1
\* detection attempts counted by one Host instance
MaxAttempts == 3
\* log events received, when every payload and every interleaving is explored
MaxEvents == 3
\* log events received in a long run of one payload
MaxFillEvents == 503
\* byte counts are taken up to this far on either side of a unit threshold
ByteSpread == 3

-----------------------------------------------------------------------------
(* Values *)

None == <<>>
Some(x) == <<x>>

\* lobby ids the backend may report (get_lobby_id: number | null)
LobbyIds == {7, 12345}

\* JavaScript truthiness of a `number | null`: null and 0 are falsy
Truthy(v) == v # None /\ v[1] # 0

Digits == <<"0", "1", "2", "3", "4", "5", "6", "7", "8", "9">>

\* Number.prototype.toString() of a non-negative integer: its decimal digits
RECURSIVE DecStr(_)
DecStr(n) ==
    IF n < 10 THEN Digits[n + 1]
    ELSE DecStr(n \div 10) \o Digits[(n % 10) + 1]

\* answers of get_lobby_id: resolved with null, resolved with an id, rejected
Resolved(v) == [ok |-> TRUE, val |-> v]
Rejected == [ok |-> FALSE, val |-> None]
LobbyAnswers == {Resolved(None), Rejected} \cup {Resolved(Some(n)) : n \in LobbyIds}

\* error texts the backend may reject join_lobby / start_host with
ErrorTexts == {"timeout"}

\* servers detect_minecraft_server may report
Servers == {[port |-> 25566, motd |-> "World"]}
DetectAnswers == {Resolved(None), Rejected} \cup {Resolved(Some(sv)) : sv \in Servers}

\* port numbers of the model, and what the user may type into the port input
Ports == {25565} \cup {sv.port : sv \in Servers}
PortInputs == {""} \cup {DecStr(n) : n \in Ports}

\* parseInt of a string of decimal digits: the number it is the numeral of
ParseInt(s) == CHOOSE n \in Ports : DecStr(n) = s

EmptyConnection == [type |-> None, lobbyId |-> None, port |-> None]

\* The calls of one kind that await the backend form a bag: the backend may
\* settle them in any order
Pending(b) == BagCardinality(b)
Add(b, r) == b (+) SetToBag({r})
Remove(b, r) == b (-) SetToBag({r})

\* pending calls of an instance that is unmounted: the promise still settles
\* and its continuation still runs, but the instance's setState calls are
\* no-ops
OrphanCall(r) == [r EXCEPT !.live = FALSE]
Orphan(b) == BagOfAll(OrphanCall, b)


-----------------------------------------------------------------------------
(* Telemetry: the metrics effects of the two views (Client.tsx lines 120-137, *)
(* Host.tsx lines 136-149) and the PerformancePanel's byte formatter.         *)

ClientFetch == <<"get_performance_metrics", "Client">>
HostFetch == <<"get_performance_metrics", "Host">>

\* variant: the effect returns no cleanup
MetricsCleanup_Leak(n) == n

\* return () => clearInterval(interval): the interval this run registered is
\* cleared
MetricsCleanup(n) == n - 1

\* Client.tsx lines 120-137, deps [status].  The effect's cleanup runs when the
\* instance is unmounted or status changed, and exists when the last run
\* passed line 121; the body runs on mount and when status changed.  n is the
\* number of registered intervals; the result is that number afterwards and
\* the calls the body made (fetchMetrics() of line 132).
ClientMetricsEffect(wasMounted, oldStatus, isMounted, newStatus, n) ==
    LET rerun == wasMounted /\ isMounted /\ oldStatus # newStatus
        cleaned == IF wasMounted /\ (~isMounted \/ rerun) /\ oldStatus = "connected"
                   THEN MetricsCleanup(n) ELSE n
    IN IF isMounted /\ (~wasMounted \/ rerun) /\ newStatus = "connected"
       THEN [intervals |-> cleaned + 1, called |-> <<ClientFetch>>]
       ELSE [intervals |-> cleaned, called |-> <<>>]

\* Host.tsx lines 136-149, deps [status]: as the Client's, but the body only
\* registers the interval; it makes no call of its own
HostMetricsEffect(wasMounted, oldStatus, isMounted, newStatus, n) ==
    LET rerun == wasMounted /\ isMounted /\ oldStatus # newStatus
        cleaned == IF wasMounted /\ (~isMounted \/ rerun) /\ oldStatus = "running"
                   THEN MetricsCleanup(n) ELSE n
    IN IF isMounted /\ (~wasMounted \/ rerun) /\ newStatus = "running"
       THEN [intervals |-> cleaned + 1, called |-> <<>>]
       ELSE [intervals |-> cleaned, called |-> <<>>]

\* 1024, the formatter's unit step
Kilo == 1024

\* x.toFixed(2) for x = num / den with den a power of two: the quotient is
\* exact in a double, and toFixed takes the integer n with n / 100 nearest to
\* x, the larger one on a tie
ToFixed2(num, den) ==
    LET n == (200 * num + den) \div (2 * den)
    IN DecStr(n \div 100) \o "." \o Digits[((n \div 10) % 10) + 1]
                          \o Digits[(n % 10) + 1]

\* variant: the units are decimal (1000)
FormatBytes_Decimal(bytes) ==
    IF bytes < 1000 THEN DecStr(bytes) \o " B"
    ELSE IF bytes < 1000 * 1000 THEN ToFixed2(bytes, 1000) \o " KB"
    ELSE ToFixed2(bytes, 1000 * 1000) \o " MB"

\* formatBytes, LogPanel.tsx lines 330-334
FormatBytes(bytes) ==
    IF bytes < Kilo THEN DecStr(bytes) \o " B"
    ELSE IF bytes < Kilo * Kilo THEN ToFixed2(bytes, Kilo) \o " KB"
    ELSE ToFixed2(bytes, Kilo * Kilo) \o " MB"

\* useState<PerformanceMetrics | null>(null): no metrics, nothing rendered
NoMetrics == [metrics |-> None, bytesSent |-> ""]

\* What a step that renders the application leaves of the timers and of the
\* telemetry: the metrics effects of the views run after the render, the
\* other timers and the log filter stay, and a view that is unmounted loses
\* its metrics and its discovery state.
Rendered ==
    LET c == ClientMetricsEffect(view = "client", cStatus, view' = "client",
                                 cStatus', cMetricsIntervals)
        h == HostMetricsEffect(view = "host", hStatus, view' = "host",
                               hStatus', hMetricsIntervals)
    IN /\ cMetricsIntervals' = c.intervals
       /\ hMetricsIntervals' = h.intervals
       /\ fetched' = c.called \o h.called
       /\ panel' = IF view' = view THEN panel ELSE NoMetrics
       /\ discoveryStatus' = IF view' = view THEN discoveryStatus ELSE "idle"
       /\ lanServer' = IF view' = view THEN lanServer ELSE None
       /\ cDiscover' = IF view' = view THEN cDiscover ELSE Orphan(cDiscover)
       /\ UNCHANGED <<appIntervals, viewerIntervals, filter>>

-----------------------------------------------------------------------------
(* App.tsx: the Connection Reconciler *)

\* variants of checkActiveConnection with a plausible slip each
\* ... the lobby-present branch infers the client role
CheckActiveConnectionMerge_InferRole(prev, ans) ==
    IF ~ans.ok THEN prev
    ELSE IF Truthy(ans.val)
         THEN [prev EXCEPT !.lobbyId = Some(DecStr(ans.val[1])),
                           !.type = Some("client")]
         ELSE EmptyConnection

\* ... the lobby-present branch builds a fresh object and drops the port
CheckActiveConnectionMerge_DropPort(prev, ans) ==
    IF ~ans.ok THEN prev
    ELSE IF Truthy(ans.val)
         THEN [type |-> prev.type, lobbyId |-> Some(DecStr(ans.val[1])),
               port |-> None]
         ELSE EmptyConnection

\* ... the no-lobby branch clears only the lobby id
CheckActiveConnectionMerge_KeepRole(prev, ans) ==
    IF ~ans.ok THEN prev
    ELSE IF Truthy(ans.val)
         THEN [prev EXCEPT !.lobbyId = Some(DecStr(ans.val[1]))]
         ELSE [prev EXCEPT !.lobbyId = None]

\* ... the catch block clears the state (fail-fast)
CheckActiveConnectionMerge_ClearOnError(prev, ans) ==
    IF ~ans.ok THEN EmptyConnection
    ELSE IF Truthy(ans.val)
         THEN [prev EXCEPT !.lobbyId = Some(DecStr(ans.val[1]))]
         ELSE EmptyConnection

\* checkActiveConnection, lines 29-47: the ConnectionState after the awaited
\* get_lobby_id settled with `ans`, from the state `prev` it finds
CheckActiveConnectionMerge(prev, ans) ==
    IF ~ans.ok
    THEN prev                                             \* catch: console.error
    ELSE IF Truthy(ans.val)
         THEN [prev EXCEPT !.lobbyId = Some(DecStr(ans.val[1]))]   \* {...prev, lobbyId}
         ELSE EmptyConnection

\* does checkActiveConnection call setConnectionState (and so re-render App)
CheckActiveConnectionSets(ans) == ans.ok

\* <Host onConnectionChange={(lobbyId, port) => ...}>, lines 102-108
HostOnConnectionChange(lobbyId, port) ==
    [type |-> Some("host"), lobbyId |-> lobbyId, port |-> port]

\* variant: the Client callback spreads the previous state and keeps its port
ClientOnConnectionChange_KeepPort(lobbyId) ==
    [type |-> Some("client"), lobbyId |-> lobbyId, port |-> connectionState.port]

\* <Client onConnectionChange={(lobbyId) => ...}>, lines 119-125
ClientOnConnectionChange(lobbyId) ==
    [type |-> Some("client"), lobbyId |-> lobbyId, port |-> None]

\* Client.tsx restoreState effect, deps [connectionState, onConnectionChange]:
\* onConnectionChange is an inline arrow of App, a new function on every App
\* render, so the effect runs again after each render of App while the Client
\* view is mounted.  `conn` is the connectionState prop of that render, which
\* the new restoreState closure captures.
RestoreEffect(pending, conn) == Add(pending, [conn |-> conn, live |-> TRUE])

RestoreCall == <<"get_lobby_id", "Client">>
CheckCall == <<"get_lobby_id", "App">>

\* setInterval(() => checkActiveConnection(), 2000), lines 62-64: the tick
\* calls checkActiveConnection whether or not an earlier call has returned
AppIntervalTick ==
    /\ lastOp' = <<"AppIntervalTick">>
    /\ appIntervals > 0
    /\ checkPending < MaxChecks
    /\ checkPending' = checkPending + 1
    /\ calls' = <<CheckCall>>
    /\ UNCHANGED <<view, connectionState, clientVars, hostVars, logVars>>
    /\ Rendered

\* the continuation of checkActiveConnection after its await
CheckActiveConnectionReturn(ans) ==
    /\ lastOp' = <<"CheckActiveConnectionReturn", ans, connectionState>>
    /\ checkPending > 0
    /\ checkPending' = checkPending - 1
    /\ connectionState' = CheckActiveConnectionMerge(connectionState, ans)
    /\ IF CheckActiveConnectionSets(ans) /\ view = "client"
       THEN /\ Pending(cRestore) < MaxRestores
            /\ cRestore' = RestoreEffect(cRestore, connectionState')
            /\ calls' = <<RestoreCall>>
       ELSE /\ calls' = <<>>
            /\ UNCHANGED cRestore
    /\ UNCHANGED <<view, cLobbyId, cStatus, cMessage, cJoin, hostVars, logVars>>
    /\ Rendered

\* A workflow calls the callback App hands to the Host view.  (Host.tsx itself
\* never calls it; here the caller is the environment of App.)
AdoptHost(l, p) ==
    /\ lastOp' = <<"HostOnConnectionChange", l, p, connectionState>>
    /\ view # "client"
    /\ connectionState' = HostOnConnectionChange(l, p)
    /\ calls' = <<>>
    /\ UNCHANGED <<view, checkPending, clientVars, hostVars, logVars>>
    /\ Rendered

\* A workflow calls the callback App hands to the Client view
AdoptClient(l) ==
    /\ lastOp' = <<"ClientOnConnectionChange", l, connectionState>>
    /\ view # "client"
    /\ connectionState' = ClientOnConnectionChange(l)
    /\ calls' = <<>>
    /\ UNCHANGED <<view, checkPending, clientVars, hostVars, logVars>>
    /\ Rendered

\* arguments the callbacks are called with
LobbyIdArgs == {None} \cup {Some(DecStr(n)) : n \in LobbyIds}
PortArgs == {None} \cup {Some(n) : n \in Ports}

-----------------------------------------------------------------------------
(* Client.tsx: the Client workflow *)

\* variant: the callback is called twice
NotifyParent_Twice(l) == << <<"onConnectionChange", l>>, <<"onConnectionChange", l>> >>

\* if (onConnectionChange) onConnectionChange(l), lines 62-64, 90-92, 96-98:
\* the calls of the parent's callback one such statement makes
NotifyParent(l) == << <<"onConnectionChange", l>> >>

\* Home onNavigate('client'): a new Client instance is mounted with its
\* initial state and its restoreState effect runs
NavigateClient ==
    /\ lastOp' = <<"NavigateClient">>
    /\ view = "home"
    /\ Pending(cRestore) < MaxRestores
    /\ view' = "client"
    /\ cLobbyId' = "" /\ cStatus' = "idle" /\ cMessage' = ""
    /\ cRestore' = RestoreEffect(cRestore, connectionState)
    /\ calls' = <<RestoreCall>>
    /\ UNCHANGED <<connectionState, checkPending, cJoin, hostVars, logVars>>
    /\ Rendered

\* Client onBack, App.tsx lines 113-117: checkActiveConnection(); setView("home")
ClientOnBack ==
    /\ lastOp' = <<"ClientOnBack">>
    /\ view = "client"
    /\ checkPending < MaxChecks
    /\ checkPending' = checkPending + 1
    /\ view' = "home"
    /\ cLobbyId' = "" /\ cStatus' = "idle" /\ cMessage' = ""
    /\ cRestore' = Orphan(cRestore)
    /\ cJoin' = Orphan(cJoin)
    /\ calls' = <<CheckCall>>
    /\ UNCHANGED <<connectionState, hostVars, logVars>>
    /\ Rendered

\* the lobby id <input>, lines 229-246: rendered while status is not
\* 'connected', disabled while 'connecting'
ClientSetLobbyId(s) ==
    /\ lastOp' = <<"ClientSetLobbyId", s>>
    /\ view = "client"
    /\ cStatus \notin {"connected", "connecting"}
    /\ cLobbyId' = s
    /\ calls' = <<>>
    /\ UNCHANGED <<appVars, cStatus, cMessage, cRestore, cJoin, hostVars, logVars>>
    /\ Rendered

\* variant: the empty lobby id is not tested
HandleJoin_NoGuard ==
    /\ lastOp' = <<"HandleJoin", cLobbyId>>
    /\ view = "client"
    /\ cStatus \notin {"connected", "connecting"}
    /\ Pending(cJoin) < MaxJoins
    /\ cStatus' = "connecting"
    /\ cMessage' = "joining lobby..."
    /\ cJoin' = Add(cJoin, [lobbyId |-> cLobbyId, live |-> TRUE])
    /\ calls' = << <<"join_lobby", cLobbyId>> >>
    /\ UNCHANGED <<appVars, cLobbyId, cRestore, hostVars, logVars>>
    /\ Rendered

\* handleJoin up to its await, lines 78-86.  The button (lines 344-347) is
\* rendered while status is not 'connected' and disabled while 'connecting'.
HandleJoin ==
    /\ lastOp' = <<"HandleJoin", cLobbyId>>
    /\ view = "client"
    /\ cStatus \notin {"connected", "connecting"}
    /\ IF cLobbyId = ""
       THEN /\ calls' = <<>>                               \* if (!lobbyId) return
            /\ UNCHANGED <<cStatus, cMessage, cJoin>>
       ELSE /\ Pending(cJoin) < MaxJoins
            /\ cStatus' = "connecting"
            /\ cMessage' = "joining lobby..."
            /\ cJoin' = Add(cJoin, [lobbyId |-> cLobbyId, live |-> TRUE])
            /\ calls' = << <<"join_lobby", cLobbyId>> >>
    /\ UNCHANGED <<appVars, cLobbyId, cRestore, hostVars, logVars>>
    /\ Rendered

\* variant: the parent is not told of the successful join
HandleJoinResolved_NoAdopt(j) ==
    /\ lastOp' = <<"HandleJoinResolved", j>>
    /\ BagIn(j, cJoin)
    /\ cJoin' = Remove(cJoin, j)
    /\ IF j.live
       THEN cStatus' = "connected" /\ cMessage' = ""
       ELSE UNCHANGED <<cStatus, cMessage>>
    /\ calls' = <<>>
    /\ UNCHANGED <<appVars, cLobbyId, cRestore, hostVars, logVars>>
    /\ Rendered

\* handleJoin after join_lobby resolved, lines 87-92
HandleJoinResolved(j) ==
    /\ lastOp' = <<"HandleJoinResolved", j>>
    /\ BagIn(j, cJoin)
    /\ /\ cJoin' = Remove(cJoin, j)
       /\ IF j.live
          THEN cStatus' = "connected" /\ cMessage' = ""
          ELSE UNCHANGED <<cStatus, cMessage>>
       /\ connectionState' = ClientOnConnectionChange(Some(j.lobbyId))
       /\ IF view = "client"
          THEN /\ Pending(cRestore) < MaxRestores
               /\ cRestore' = RestoreEffect(cRestore, connectionState')
               /\ calls' = NotifyParent(Some(j.lobbyId)) \o <<RestoreCall>>
          ELSE /\ calls' = NotifyParent(Some(j.lobbyId))
               /\ UNCHANGED cRestore
    /\ UNCHANGED <<view, checkPending, cLobbyId, hostVars, logVars>>
    /\ Rendered

\* handleJoin after join_lobby rejected with e, lines 93-99
HandleJoinRejected(j, e) ==
    /\ lastOp' = <<"HandleJoinRejected", j, e>>
    /\ BagIn(j, cJoin)
    /\ /\ cJoin' = Remove(cJoin, j)
       /\ IF j.live
          THEN cStatus' = "error" /\ cMessage' = "join failed: " \o e
          ELSE UNCHANGED <<cStatus, cMessage>>
       /\ connectionState' = ClientOnConnectionChange(None)
       /\ IF view = "client"
          THEN /\ Pending(cRestore) < MaxRestores
               /\ cRestore' = RestoreEffect(cRestore, connectionState')
               /\ calls' = NotifyParent(None) \o <<RestoreCall>>
          ELSE /\ calls' = NotifyParent(None)
               /\ UNCHANGED cRestore
    /\ UNCHANGED <<view, checkPending, cLobbyId, hostVars, logVars>>
    /\ Rendered

\* variant: a reported lobby is joined again instead of being shown
RestoreStateReturn_Rejoin(r, ans) ==
    /\ lastOp' = <<"RestoreStateReturn", r, ans>>
    /\ BagIn(r, cRestore)
    /\ cRestore' = Remove(cRestore, r)
    /\ UNCHANGED connectionState
    /\ IF ans.ok /\ Truthy(ans.val) /\ r.live
       THEN /\ cLobbyId' = DecStr(ans.val[1])
            /\ cStatus' = "connecting" /\ cMessage' = "joining lobby..."
            /\ cJoin' = Add(cJoin, [lobbyId |-> DecStr(ans.val[1]), live |-> TRUE])
            /\ calls' = << <<"join_lobby", DecStr(ans.val[1])>> >>
       ELSE /\ calls' = <<>>
            /\ UNCHANGED <<cLobbyId, cStatus, cMessage, cJoin>>
    /\ UNCHANGED <<view, checkPending, hostVars, logVars>>
    /\ Rendered

\* restoreState after its await, lines 54-73
RestoreStateReturn(r, ans) ==
    /\ lastOp' = <<"RestoreStateReturn", r, ans>>
    /\ BagIn(r, cRestore)
    /\ LET rest == Remove(cRestore, r)
           idStr == DecStr(ans.val[1])
       IN
       IF ans.ok /\ Truthy(ans.val)
       THEN /\ IF r.live
               THEN cLobbyId' = idStr /\ cStatus' = "connected" /\ cMessage' = ""
               ELSE UNCHANGED <<cLobbyId, cStatus, cMessage>>
            /\ connectionState' = ClientOnConnectionChange(Some(idStr))
            /\ IF view = "client"
               THEN /\ cRestore' = RestoreEffect(rest, connectionState')
                    /\ calls' = NotifyParent(Some(idStr)) \o <<RestoreCall>>
               ELSE /\ cRestore' = rest
                    /\ calls' = NotifyParent(Some(idStr))
       ELSE /\ IF /\ ans.ok /\ r.live
                  /\ r.conn.lobbyId # None /\ r.conn.type = Some("client")
               THEN /\ cLobbyId' = r.conn.lobbyId[1]
                    /\ cStatus' = "connected" /\ cMessage' = ""
               ELSE UNCHANGED <<cLobbyId, cStatus, cMessage>>
            /\ cRestore' = rest
            /\ calls' = <<>>
            /\ UNCHANGED connectionState
    /\ UNCHANGED <<view, checkPending, cJoin, hostVars, logVars>>
    /\ Rendered

\* lobby ids the user may type
DiscoverCall == <<"detect_minecraft_server", "Client">>

\* handleDiscover up to its await, lines 102-106.  The button (lines 167-169)
\* is rendered while status is not 'connected' and disabled while scanning.
\* Only Client state changes: App is not rendered again.
HandleDiscover ==
    /\ lastOp' = <<"HandleDiscover">>
    /\ view = "client"
    /\ cStatus # "connected"
    /\ discoveryStatus # "scanning"
    /\ Pending(cDiscover) < MaxDiscovers
    /\ discoveryStatus' = "scanning"
    /\ lanServer' = None
    /\ cDiscover' = Add(cDiscover, [live |-> TRUE])
    /\ calls' = <<DiscoverCall>> /\ fetched' = <<>>
    /\ UNCHANGED <<appVars, clientVars, hostVars, logVars, appIntervals,
                   viewerIntervals, cMetricsIntervals, hMetricsIntervals,
                   filter, panel>>

\* variant: a probe that fails or finds nothing is reported as a join error
HandleDiscoverReturn_Error(d, ans) ==
    /\ lastOp' = <<"HandleDiscoverReturn", d, ans>>
    /\ BagIn(d, cDiscover)
    /\ cDiscover' = Remove(cDiscover, d)
    /\ IF d.live
       THEN IF ans.ok /\ ans.val # None
            THEN /\ lanServer' = ans.val
                 /\ discoveryStatus' = "found"
                 /\ UNCHANGED <<cStatus, cMessage>>
            ELSE /\ discoveryStatus' = "not_found"
                 /\ cStatus' = "error"
                 /\ cMessage' = "no server found"
                 /\ UNCHANGED lanServer
       ELSE UNCHANGED <<lanServer, discoveryStatus, cStatus, cMessage>>
    /\ calls' = <<>> /\ fetched' = <<>>
    /\ UNCHANGED <<appVars, cLobbyId, cRestore, cJoin, hostVars, logVars,
                   appIntervals, viewerIntervals, cMetricsIntervals,
                   hMetricsIntervals, filter, panel>>

\* handleDiscover after its await, lines 106-116
HandleDiscoverReturn(d, ans) ==
    /\ lastOp' = <<"HandleDiscoverReturn", d, ans>>
    /\ BagIn(d, cDiscover)
    /\ cDiscover' = Remove(cDiscover, d)
    /\ IF d.live
       THEN IF ans.ok /\ ans.val # None
            THEN /\ lanServer' = ans.val
                 /\ discoveryStatus' = "found"
            ELSE /\ discoveryStatus' = "not_found"
                 /\ UNCHANGED lanServer
       ELSE UNCHANGED <<lanServer, discoveryStatus>>
    /\ calls' = <<>> /\ fetched' = <<>>
    /\ UNCHANGED <<appVars, clientVars, hostVars, logVars, appIntervals,
                   viewerIntervals, cMetricsIntervals, hMetricsIntervals,
                   filter, panel>>

NextDiscover ==
    \/ HandleDiscover
    \/ \E d \in BagToSet(cDiscover), ans \in DetectAnswers : HandleDiscoverReturn(d, ans)

LobbyIdInputs == {""} \cup {DecStr(n) : n \in LobbyIds}


-----------------------------------------------------------------------------
(* Host.tsx: the Host workflow.  Host destructures only onBack from its   *)
(* props (line 29): the connectionState and onConnectionChange props that *)
(* App passes are never read.                                             *)

SearchingMessage(n) == "searching for local server... (attempt " \o DecStr(n) \o ")"

\* variant: the ref is reset but the interval is not cleared
IntervalsAfterClear_Leak == hIntervals

\* clearInterval(detectionIntervalRef.current), guarded by the ref being set
IntervalsAfterClear == IF detectionIntervalRef THEN hIntervals - 1 ELSE hIntervals

\* variant: the effect's early return tests only the status
DetectionEffect_IgnoreDetected(st, ds, pending, attempts, det, msg) ==
    IF st = "running"
    THEN [ref |-> FALSE, intervals |-> IntervalsAfterClear, probes |-> pending,
          attempts |-> attempts, detecting |-> det, message |-> msg,
          called |-> <<>>]
    ELSE [ref |-> TRUE, intervals |-> IntervalsAfterClear + 1,
          probes |-> Add(pending, [live |-> TRUE]),
          attempts |-> attempts + 1, detecting |-> TRUE,
          message |-> SearchingMessage(attempts + 1),
          called |-> << <<"detect_minecraft_server">> >>]

\* The detection effect, lines 42-93, deps [detectedServer, status], run after
\* a render in which one of them changed: first the previous run's cleanup
\* (lines 87-92), then the body with the new values `st` and `ds`; `pending`,
\* `attempts`, `det` and `msg` are the values the handler that caused the
\* render left.
\* The result is the Host state the effect leaves.
DetectionEffect(st, ds, pending, attempts, det, msg) ==
    IF ds # None \/ st = "running"
    THEN [ref |-> FALSE, intervals |-> IntervalsAfterClear, probes |-> pending,
          attempts |-> attempts, detecting |-> det, message |-> msg,
          called |-> <<>>]
    ELSE \* performDetection(); detectionIntervalRef.current = setInterval(...)
         [ref |-> TRUE, intervals |-> IntervalsAfterClear + 1,
          probes |-> Add(pending, [live |-> TRUE]),
          attempts |-> attempts + 1, detecting |-> TRUE,
          message |-> SearchingMessage(attempts + 1),
          called |-> << <<"detect_minecraft_server">> >>]

\* Home onNavigate('host'): a new Host instance is mounted with its initial
\* state (lines 30-39) and its detection effect runs
NavigateHost ==
    /\ lastOp' = <<"NavigateHost">>
    /\ view = "home"
    /\ Pending(hDetect) < MaxDetects
    /\ view' = "host"
    /\ hPort' = "25565" /\ hStatus' = "idle" /\ hLobbyId' = None
    /\ detectedServer' = None
    /\ detecting' = TRUE
    /\ detectionAttempts' = 1
    /\ hMessage' = SearchingMessage(1)
    /\ detectionIntervalRef' = TRUE
    /\ hIntervals' = 1
    /\ hDetect' = Add(hDetect, [live |-> TRUE])
    /\ calls' = << <<"detect_minecraft_server">> >>
    /\ UNCHANGED <<connectionState, checkPending, clientVars, hStart, hSettle,
                   hFetch, logVars>>
    /\ Rendered

\* Host onBack, App.tsx lines 96-100: checkActiveConnection(); setView("home").
\* Unmounting runs the detection effect's cleanup.
HostOnBack ==
    /\ lastOp' = <<"HostOnBack">>
    /\ view = "host"
    /\ checkPending < MaxChecks
    /\ checkPending' = checkPending + 1
    /\ view' = "home"
    /\ hPort' = "25565" /\ hStatus' = "idle" /\ hLobbyId' = None
    /\ hMessage' = "detecting server automatically..."
    /\ detecting' = TRUE /\ detectedServer' = None /\ detectionAttempts' = 0
    /\ detectionIntervalRef' = FALSE
    /\ hIntervals' = IntervalsAfterClear
    /\ hDetect' = Orphan(hDetect)
    /\ hStart' = Orphan(hStart)
    /\ hSettle' = Orphan(hSettle)
    /\ hFetch' = Orphan(hFetch)
    /\ calls' = <<CheckCall>>
    /\ UNCHANGED <<connectionState, clientVars, logVars>>
    /\ Rendered

\* the port <input>, lines 235-252, disabled while status is 'running'
HostSetPort(s) ==
    /\ lastOp' = <<"HostSetPort", s>>
    /\ view = "host"
    /\ hStatus # "running"
    /\ hPort' = s
    /\ calls' = <<>>
    /\ UNCHANGED <<appVars, clientVars, hStatus, hMessage, hLobbyId, detecting,
                   detectedServer, detectionAttempts, detectionIntervalRef,
                   hIntervals, hDetect, hStart, hSettle, hFetch, logVars>>
    /\ Rendered

\* a tick of the detection interval, line 84: performDetection up to its
\* await, lines 49-58
DetectionIntervalTick ==
    /\ lastOp' = <<"DetectionIntervalTick">>
    /\ view = "host"
    /\ hIntervals > 0
    /\ Pending(hDetect) < MaxDetects
    /\ detectionAttempts < MaxAttempts
    /\ detecting' = TRUE
    /\ detectionAttempts' = detectionAttempts + 1
    /\ hMessage' = SearchingMessage(detectionAttempts + 1)
    /\ hDetect' = Add(hDetect, [live |-> TRUE])
    /\ calls' = << <<"detect_minecraft_server">> >>
    /\ UNCHANGED <<appVars, clientVars, hPort, hStatus, hLobbyId, detectedServer,
                   detectionIntervalRef, hIntervals, hStart, hSettle, hFetch,
                   logVars>>
    /\ Rendered

\* performDetection after its await, lines 58-76
PerformDetectionReturn(d, ans) ==
    /\ lastOp' = <<"PerformDetectionReturn", d, ans>>
    /\ BagIn(d, hDetect)
    /\ IF d.live /\ ans.ok /\ ans.val # None
       THEN \* lines 61-71, then the effect re-runs: detectedServer changed
            LET e == DetectionEffect(hStatus, ans.val, Remove(hDetect, d),
                                     detectionAttempts, FALSE,
                                     "detected server: " \o ans.val[1].motd)
            IN /\ hPort' = DecStr(ans.val[1].port)
               /\ detectedServer' = ans.val
               /\ detecting' = e.detecting
               /\ hMessage' = e.message
               /\ detectionIntervalRef' = e.ref
               /\ hIntervals' = e.intervals
               /\ hDetect' = e.probes
               /\ detectionAttempts' = e.attempts
               /\ calls' = e.called
       ELSE /\ hDetect' = Remove(hDetect, d)
            /\ hMessage' = IF d.live /\ ~ans.ok
                           THEN "detection failed, retrying..."
                           ELSE hMessage
            /\ calls' = <<>>
            /\ UNCHANGED <<hPort, detectedServer, detecting, detectionIntervalRef,
                           hIntervals, detectionAttempts>>
    /\ UNCHANGED <<appVars, clientVars, hStatus, hLobbyId, hStart, hSettle,
                   hFetch, logVars>>
    /\ Rendered

\* handleStart up to its await, lines 95-106.  The button (lines 332-333) is
\* disabled while status is 'running' or the port input is empty.
HandleStart ==
    /\ lastOp' = <<"HandleStart", hPort>>
    /\ view = "host"
    /\ hStatus # "running" /\ hPort # ""
    /\ Pending(hStart) + Pending(hSettle) + Pending(hFetch) < MaxStarts
    /\ LET e == DetectionEffect("running", detectedServer, hDetect,
                                detectionAttempts, FALSE, "starting host...")
       IN /\ hStatus' = "running"
          /\ detecting' = e.detecting
          /\ hMessage' = e.message
          /\ detectionIntervalRef' = e.ref
          /\ hIntervals' = e.intervals
    /\ hStart' = Add(hStart, [port |-> ParseInt(hPort), live |-> TRUE])
    /\ calls' = << <<"start_host", ParseInt(hPort)>> >>
    /\ UNCHANGED <<appVars, clientVars, hPort, hLobbyId, detectedServer,
                   detectionAttempts, hDetect, hSettle, hFetch, logVars>>
    /\ Rendered

\* handleStart after start_host resolved, lines 107-120: the message, and a
\* timer for the lobby id fetch
HandleStartResolved(h) ==
    /\ lastOp' = <<"HandleStartResolved", h>>
    /\ BagIn(h, hStart)
    /\ hStart' = Remove(hStart, h)
    /\ hSettle' = Add(hSettle, [live |-> h.live])
    /\ hMessage' = IF h.live THEN "host running... fetching lobby id" ELSE hMessage
    /\ calls' = <<>>
    /\ UNCHANGED <<appVars, clientVars, hPort, hStatus, hLobbyId, detecting,
                   detectedServer, detectionAttempts, detectionIntervalRef,
                   hIntervals, hDetect, hFetch, logVars>>
    /\ Rendered

\* handleStart after start_host rejected with err, lines 121-124; status
\* changed, so the detection effect runs again
HandleStartRejected(h, err) ==
    /\ lastOp' = <<"HandleStartRejected", h, err>>
    /\ BagIn(h, hStart)
    /\ hStart' = Remove(hStart, h)
    /\ IF h.live
       THEN LET e == DetectionEffect("error", detectedServer, hDetect,
                                     detectionAttempts, detecting,
                                     "start failed: " \o err)
            IN /\ detectedServer = None =>
                     Pending(hDetect) < MaxDetects /\ detectionAttempts < MaxAttempts
               /\ hStatus' = "error"
               /\ detecting' = e.detecting
               /\ hMessage' = e.message
               /\ detectionIntervalRef' = e.ref
               /\ hIntervals' = e.intervals
               /\ hDetect' = e.probes
               /\ detectionAttempts' = e.attempts
               /\ calls' = e.called
       ELSE /\ calls' = <<>>
            /\ UNCHANGED <<hStatus, detecting, hMessage, detectionIntervalRef,
                           hIntervals, hDetect, detectionAttempts>>
    /\ UNCHANGED <<appVars, clientVars, hPort, hLobbyId, detectedServer, hSettle,
                   hFetch, logVars>>
    /\ Rendered

\* the setTimeout callback up to its await, lines 110-112
SettleTimeout(t) ==
    /\ lastOp' = <<"SettleTimeout", t>>
    /\ BagIn(t, hSettle)
    /\ hSettle' = Remove(hSettle, t)
    /\ hFetch' = Add(hFetch, t)
    /\ calls' = << <<"get_lobby_id", "Host">> >>
    /\ UNCHANGED <<appVars, clientVars, hPort, hStatus, hMessage, hLobbyId,
                   detecting, detectedServer, detectionAttempts,
                   detectionIntervalRef, hIntervals, hDetect, hStart, logVars>>
    /\ Rendered

\* variant: a fetch that fails or finds no id is scheduled again
LobbyFetchReturn_Retry(f, ans) ==
    /\ lastOp' = <<"LobbyFetchReturn", f, ans>>
    /\ BagIn(f, hFetch)
    /\ hFetch' = Remove(hFetch, f)
    /\ IF f.live /\ ans.ok /\ Truthy(ans.val)
       THEN /\ hLobbyId' = Some(DecStr(ans.val[1]))
            /\ hMessage' = "host running... share the lobby id"
            /\ UNCHANGED hSettle
       ELSE /\ hSettle' = Add(hSettle, f)
            /\ UNCHANGED <<hLobbyId, hMessage>>
    /\ calls' = <<>>
    /\ UNCHANGED <<appVars, clientVars, hPort, hStatus, detecting, detectedServer,
                   detectionAttempts, detectionIntervalRef, hIntervals, hDetect,
                   hStart, logVars>>
    /\ Rendered

\* the setTimeout callback after its await, lines 112-119
LobbyFetchReturn(f, ans) ==
    /\ lastOp' = <<"LobbyFetchReturn", f, ans>>
    /\ BagIn(f, hFetch)
    /\ hFetch' = Remove(hFetch, f)
    /\ IF f.live /\ ans.ok /\ Truthy(ans.val)
       THEN /\ hLobbyId' = Some(DecStr(ans.val[1]))
            /\ hMessage' = "host running... share the lobby id"
       ELSE UNCHANGED <<hLobbyId, hMessage>>
    /\ calls' = <<>>
    /\ UNCHANGED <<appVars, clientVars, hPort, hStatus, detecting, detectedServer,
                   detectionAttempts, detectionIntervalRef, hIntervals, hDetect,
                   hStart, hSettle, logVars>>
    /\ Rendered

NextHost ==
    \/ NavigateHost
    \/ HostOnBack
    \/ \E s \in PortInputs : HostSetPort(s)
    \/ DetectionIntervalTick
    \/ \E d \in BagToSet(hDetect), ans \in DetectAnswers : PerformDetectionReturn(d, ans)
    \/ HandleStart
    \/ \E h \in BagToSet(hStart) : HandleStartResolved(h)
    \/ \E h \in BagToSet(hStart), err \in ErrorTexts : HandleStartRejected(h, err)
    \/ \E t \in BagToSet(hSettle) : SettleTimeout(t)
    \/ \E f \in BagToSet(hFetch), ans \in LobbyAnswers : LobbyFetchReturn(f, ans)


-----------------------------------------------------------------------------
(* LogPanel.tsx: the Log Aggregator *)

\* globalLogs.slice(-500): 500 is the number of entries kept before the append
SliceKeep == 500

\* variant: s.slice(0, n), the first n elements of s
SliceLast_Oldest(s, n) == IF Len(s) <= n THEN s ELSE SubSeq(s, 1, n)

\* s.slice(-n): the last n elements of s, all of s when it has fewer
SliceLast(s, n) == IF Len(s) <= n THEN s ELSE SubSeq(s, Len(s) - n + 1, Len(s))

\* variant: event.payload.level ?? "INFO", only a missing level is defaulted
LevelOrInfo_Nullish(level) == IF level = None THEN "INFO" ELSE level[1]

\* event.payload.level || "INFO": undefined and "" are falsy
LevelOrInfo(level) == IF level = None \/ level = Some("") THEN "INFO" ELSE level[1]

\* variant: the id is the entry's index in the buffer, not the counter
LogCallback_IdFromLength(st, ev) ==
    LET newLog == [id |-> Len(st.logs),
                   timestamp |-> ev.timestamp,
                   level |-> LevelOrInfo(ev.level),
                   message |-> ev.message]
    IN [logs |-> SliceLast(st.logs, SliceKeep) \o <<newLog>>,
        counter |-> st.counter + 1,
        created |-> Append(st.created, newLog.id)]

\* the listen callback, lines 35-43, on the aggregator state st
LogCallback(st, ev) ==
    LET newLog == [id |-> st.counter,
                   timestamp |-> ev.timestamp,
                   level |-> LevelOrInfo(ev.level),
                   message |-> ev.message]
    IN [logs |-> SliceLast(st.logs, SliceKeep) \o <<newLog>>,
        counter |-> st.counter + 1,
        created |-> Append(st.created, newLog.id)]

\* an event of the stream runs every registered callback
RECURSIVE Deliver(_, _, _)
Deliver(n, st, ev) == IF n = 0 THEN st ELSE Deliver(n - 1, LogCallback(st, ev), ev)

\* variant: the latch is not consulted, every invocation subscribes
InitLogListener_NoLatch ==
    /\ lastOp' = <<"InitLogListener">>
    /\ listenerInitialized' = TRUE
    /\ listenPending' = listenPending + 1
    /\ calls' = << <<"listen", "log://log">> >>
    /\ UNCHANGED <<appVars, clientVars, hostVars, globalLogs, logIdCounter,
                   subscribed, showLogs, logs, created>>
    /\ Rendered

\* initLogListener up to its await, lines 30-35
InitLogListener ==
    /\ lastOp' = <<"InitLogListener">>
    /\ IF listenerInitialized
       THEN /\ calls' = <<>>
            /\ UNCHANGED <<listenerInitialized, listenPending>>
       ELSE /\ listenerInitialized' = TRUE
            /\ listenPending' = listenPending + 1
            /\ calls' = << <<"listen", "log://log">> >>
    /\ UNCHANGED <<appVars, clientVars, hostVars, globalLogs, logIdCounter,
                   subscribed, showLogs, logs, created>>
    /\ Rendered

\* listen() resolved: the callback is registered with the stream
ListenResolved ==
    /\ lastOp' = <<"ListenResolved">>
    /\ listenPending > 0
    /\ listenPending' = listenPending - 1
    /\ subscribed' = subscribed + 1
    /\ calls' = <<>>
    /\ UNCHANGED <<appVars, clientVars, hostVars, globalLogs, logIdCounter,
                   listenerInitialized, showLogs, logs, created>>
    /\ Rendered

\* variant: the catch block releases the latch so that a later call retries
ListenRejected_ReleaseLatch ==
    /\ lastOp' = <<"ListenRejected">>
    /\ listenPending > 0
    /\ listenPending' = listenPending - 1
    /\ listenerInitialized' = FALSE
    /\ calls' = <<>>
    /\ UNCHANGED <<appVars, clientVars, hostVars, globalLogs, logIdCounter,
                   subscribed, showLogs, logs, created>>
    /\ Rendered

\* listen() rejected, lines 44-46: console.error
ListenRejected ==
    /\ lastOp' = <<"ListenRejected">>
    /\ listenPending > 0
    /\ listenPending' = listenPending - 1
    /\ calls' = <<>>
    /\ UNCHANGED <<appVars, clientVars, hostVars, globalLogs, logIdCounter,
                   listenerInitialized, subscribed, showLogs, logs, created>>
    /\ Rendered

\* the stream emits ev
LogEvent(ev) ==
    /\ lastOp' = <<"LogEvent", ev>>
    /\ subscribed > 0
    /\ LET st == Deliver(subscribed,
                         [logs |-> globalLogs, counter |-> logIdCounter,
                          created |-> created], ev)
       IN /\ globalLogs' = st.logs
          /\ logIdCounter' = st.counter
          /\ created' = st.created
    /\ calls' = <<>>
    /\ UNCHANGED <<appVars, clientVars, hostVars, listenerInitialized,
                   listenPending, subscribed, showLogs, logs>>
    /\ Rendered

\* a tick of the viewer's interval, lines 61-63: setLogs([...globalLogs])
SyncLogsTick ==
    /\ lastOp' = <<"SyncLogsTick">>
    /\ viewerIntervals > 0
    /\ logs' = globalLogs
    /\ calls' = <<>>
    /\ UNCHANGED <<appVars, clientVars, hostVars, globalLogs, logIdCounter,
                   listenerInitialized, listenPending, subscribed, showLogs,
                   created>>
    /\ Rendered

\* variant: clearing also restarts the id counter
ClearLogs_ResetCounter ==
    /\ lastOp' = <<"ClearLogs">>
    /\ showLogs
    /\ globalLogs' = <<>>
    /\ logs' = <<>>
    /\ logIdCounter' = 0
    /\ calls' = <<>>
    /\ UNCHANGED <<appVars, clientVars, hostVars,
                   listenerInitialized, listenPending, subscribed, showLogs,
                   created>>
    /\ Rendered

\* clearLogs, lines 75-78; its button is rendered while the panel is open
ClearLogs ==
    /\ lastOp' = <<"ClearLogs">>
    /\ showLogs
    /\ globalLogs' = <<>>
    /\ logs' = <<>>
    /\ calls' = <<>>
    /\ UNCHANGED <<appVars, clientVars, hostVars, logIdCounter,
                   listenerInitialized, listenPending, subscribed, showLogs,
                   created>>
    /\ Rendered

\* `[${log.timestamp}] [${log.level}] ${log.message}`, line 82
LogLine(log) == "[" \o log.timestamp \o "] [" \o log.level \o "] " \o log.message

\* logs.map(...).join("\n"), lines 81-83: the text, as the sequence of its
\* lines (no message of the model holds a line break)
LogText(ls) == [i \in 1..Len(ls) |-> LogLine(ls[i])]

\* downloadLogs, lines 80-91: the viewer's copy `logs` is written to a file,
\* whatever the level filter is; its button is rendered while the panel is open
DownloadLogs ==
    /\ lastOp' = <<"DownloadLogs">>
    /\ showLogs
    /\ calls' = << <<"download", LogText(logs)>> >>
    /\ UNCHANGED <<appVars, clientVars, hostVars, logVars>>
    /\ Rendered

\* String.prototype.toUpperCase on the level names
ToUpper(str) ==
    CASE str = "error" -> "ERROR"
      [] str = "warn" -> "WARN"
      [] str = "info" -> "INFO"
      [] str = "debug" -> "DEBUG"
      [] OTHER -> str

\* the <select> of the level filter, lines 159-169
Filters == {"all", "ERROR", "WARN", "INFO", "DEBUG"}

\* filteredLogs, lines 93-96: what the panel lists
FilteredLogs(ls, f) ==
    IF f = "all" THEN ls
    ELSE LET Passes(log) == ToUpper(log.level) = ToUpper(f)
         IN SelectSeq(ls, Passes)

\* onChange of the filter <select>, line 161; rendered while the panel is open
SetFilter(f) ==
    /\ lastOp' = <<"SetFilter", f>>
    /\ showLogs
    /\ filter' = f
    /\ calls' = <<>> /\ fetched' = <<>>
    /\ UNCHANGED <<appVars, clientVars, hostVars, logVars, appIntervals,
                   viewerIntervals, cMetricsIntervals, hMetricsIntervals, panel,
                   discVars>>

\* LogButton onClick / LogPanel onClose, App.tsx lines 138-139: setShowLogs
\* renders App again, and with it the Client view's restoreState effect
SetShowLogs(b) ==
    /\ lastOp' = <<"SetShowLogs", b>>
    /\ showLogs # b
    /\ showLogs' = b
    /\ IF view = "client"
       THEN /\ Pending(cRestore) < MaxRestores
            /\ cRestore' = RestoreEffect(cRestore, connectionState)
            /\ calls' = <<RestoreCall>>
       ELSE /\ calls' = <<>>
            /\ UNCHANGED cRestore
    /\ UNCHANGED <<appVars, cLobbyId, cStatus, cMessage, cJoin, hostVars,
                   globalLogs, logIdCounter, listenerInitialized, listenPending,
                   subscribed, logs, created>>
    /\ Rendered

\* payloads of the log stream: the level may be missing or empty
Timestamps == {"12:00:00"}
LogPayloads ==
    [level : {None, Some(""), Some("ERROR")}, message : {"m"}, timestamp : Timestamps]
FillPayload == [level |-> Some("INFO"), message |-> "m", timestamp |-> "12:00:00"]

NextLogInit ==
    \/ InitLogListener
    \/ ListenResolved
    \/ ListenRejected

NextLog ==
    \/ NextLogInit
    \/ \E ev \in LogPayloads : logIdCounter < MaxEvents /\ LogEvent(ev)
    \/ SyncLogsTick
    \/ ClearLogs
    \/ DownloadLogs
    \/ \E f \in Filters : SetFilter(f)
    \/ \E b \in BOOLEAN : SetShowLogs(b)

\* a long run: initLogListener is called once, by the timer of line 50; the
\* user opens the panel and may clear the log at any time
NextLogFill ==
    \/ ~listenerInitialized /\ InitLogListener
    \/ ListenResolved
    \/ ListenRejected
    \/ logIdCounter < MaxFillEvents /\ LogEvent(FillPayload)
    \/ ClearLogs
    \/ SetShowLogs(TRUE)

\* a long run without clear(): the user may export at any time.  A tick of
\* the viewer's interval replaces the whole copy, so the ticks that precede a
\* later tick leave no trace in it; only the ticks that find a buffer of at
\* least 500 entries are explored.
NextLogRun ==
    \/ ~listenerInitialized /\ InitLogListener
    \/ ListenResolved
    \/ ListenRejected
    \/ logIdCounter < MaxFillEvents /\ LogEvent(FillPayload)
    \/ Len(globalLogs) >= SliceKeep /\ SyncLogsTick
    \/ DownloadLogs
    \/ SetShowLogs(TRUE)

-----------------------------------------------------------------------------
(* The telemetry timers, and the teardown of the application *)

\* a tick of the Client's metrics interval, line 134: fetchMetrics up to its
\* await
ClientMetricsTick ==
    /\ lastOp' = <<"ClientMetricsTick">>
    /\ cMetricsIntervals > 0
    /\ fetched' = <<ClientFetch>>
    /\ calls' = <<>>
    /\ UNCHANGED <<appVars, clientVars, hostVars, logVars, appIntervals,
                   viewerIntervals, cMetricsIntervals, hMetricsIntervals,
                   filter, panel, discVars>>

\* a tick of the Host's metrics interval, lines 139-141, up to its await
HostMetricsTick ==
    /\ lastOp' = <<"HostMetricsTick">>
    /\ hMetricsIntervals > 0
    /\ fetched' = <<HostFetch>>
    /\ calls' = <<>>
    /\ UNCHANGED <<appVars, clientVars, hostVars, logVars, appIntervals,
                   viewerIntervals, cMetricsIntervals, hMetricsIntervals,
                   filter, panel, discVars>>

\* fetchMetrics after its await, Client.tsx lines 126-127: setMetrics(data),
\* and the PerformancePanel (rendered while connected, line 341) shows
\* formatBytes(data.bytes_sent).  The answers are not matched with the
\* fetches: any number may arrive while the view is connected.
FetchMetricsReturn(b) ==
    /\ lastOp' = <<"FetchMetricsReturn", b>>
    /\ view = "client" /\ cStatus = "connected"
    /\ panel' = [metrics |-> Some(b), bytesSent |-> FormatBytes(b)]
    /\ calls' = <<>> /\ fetched' = <<>>
    /\ UNCHANGED <<appVars, clientVars, hostVars, logVars, appIntervals,
                   viewerIntervals, cMetricsIntervals, hMetricsIntervals, filter,
                   discVars>>

\* return () => clearInterval(interval), App.tsx line 66
AppCleanup(n) == n - 1

\* return () => clearInterval(interval), LogPanel.tsx line 65
ViewerCleanup(n) == n - 1

\* The React tree is unmounted: every mounted component's effect cleanups
\* run and its state is gone (the variables take the values the next mount
\* starts from).  Continuations of calls still pending belong to the
\* unmounted instances: they change nothing, and are not followed further.
\* The module state of LogPanel.tsx (lines 25-27) stays.
AppTeardown ==
    /\ lastOp' = <<"AppTeardown">>
    /\ view # "closed"
    /\ view' = "closed"
    /\ connectionState' = EmptyConnection
    /\ checkPending' = 0
    /\ cLobbyId' = "" /\ cStatus' = "idle" /\ cMessage' = ""
    /\ cRestore' = EmptyBag /\ cJoin' = EmptyBag
    /\ hPort' = "25565" /\ hStatus' = "idle" /\ hLobbyId' = None
    /\ hMessage' = "detecting server automatically..."
    /\ detecting' = TRUE /\ detectedServer' = None /\ detectionAttempts' = 0
    /\ detectionIntervalRef' = FALSE
    /\ hIntervals' = IntervalsAfterClear
    /\ hDetect' = EmptyBag /\ hStart' = EmptyBag
    /\ hSettle' = EmptyBag /\ hFetch' = EmptyBag
    /\ showLogs' = FALSE /\ logs' = <<>> /\ filter' = "all"
    /\ appIntervals' = AppCleanup(appIntervals)
    /\ viewerIntervals' = ViewerCleanup(viewerIntervals)
    /\ cMetricsIntervals' =
          ClientMetricsEffect(view = "client", cStatus, FALSE, "idle",
                              cMetricsIntervals).intervals
    /\ hMetricsIntervals' =
          HostMetricsEffect(view = "host", hStatus, FALSE, "idle",
                            hMetricsIntervals).intervals
    /\ panel' = NoMetrics
    /\ discoveryStatus' = "idle" /\ lanServer' = None /\ cDiscover' = EmptyBag
    /\ calls' = <<>> /\ fetched' = <<>>
    /\ UNCHANGED <<globalLogs, logIdCounter, listenerInitialized, listenPending,
                   subscribed, created>>

\* variant: a mounted LogPanel starts from an empty copy, useState([])
AppMount_EmptyCopy ==
    /\ lastOp' = <<"AppMount">>
    /\ view = "closed"
    /\ view' = "home"
    /\ checkPending' = 1
    /\ appIntervals' = appIntervals + 1
    /\ viewerIntervals' = viewerIntervals + 1
    /\ logs' = <<>>
    /\ calls' = <<CheckCall>> /\ fetched' = <<>>
    /\ UNCHANGED <<connectionState, clientVars, hostVars, globalLogs,
                   logIdCounter, listenerInitialized, listenPending, subscribed,
                   showLogs, created, cMetricsIntervals, hMetricsIntervals,
                   filter, panel, discVars>>

\* The React tree is mounted again: App's effect (lines 50-67) calls
\* checkActiveConnection and registers the interval; LogPanel starts from
\* useState(globalLogs) (line 53) and registers its sync interval
AppMount ==
    /\ lastOp' = <<"AppMount">>
    /\ view = "closed"
    /\ view' = "home"
    /\ checkPending' = 1
    /\ appIntervals' = appIntervals + 1
    /\ viewerIntervals' = viewerIntervals + 1
    /\ logs' = globalLogs
    /\ calls' = <<CheckCall>> /\ fetched' = <<>>
    /\ UNCHANGED <<connectionState, clientVars, hostVars, globalLogs,
                   logIdCounter, listenerInitialized, listenPending, subscribed,
                   showLogs, created, cMetricsIntervals, hMetricsIntervals,
                   filter, panel, discVars>>

NextTelemetry ==
    \/ ClientMetricsTick
    \/ HostMetricsTick

NextLifecycle ==
    \/ AppTeardown
    \/ AppMount

\* bytes_sent as the backend reports it: counts around zero and around each
\* unit threshold, counts whose quotient has a third decimal of 5, of 4 and
\* of 9, and whole multiples of the units
ByteInputs ==
    (0..ByteSpread)
    \cup ((Kilo - ByteSpread)..(Kilo + ByteSpread))
    \cup ((Kilo * Kilo - ByteSpread)..(Kilo * Kilo + ByteSpread))
    \cup {500, 1152, 1075, 2048, 10235, 1179648, 5242880, 9999999}

-----------------------------------------------------------------------------
(* Initial state: App has been mounted (its effect, lines 50-67, has called  *)
(* checkActiveConnection once and registered the interval), the Home view is *)
(* shown, the LogPanel module has been loaded.                               *)

Init ==
    /\ view = "home"
    /\ connectionState = EmptyConnection
    /\ checkPending = 1
    /\ cLobbyId = "" /\ cStatus = "idle" /\ cMessage = ""
    /\ cRestore = EmptyBag /\ cJoin = EmptyBag
    /\ hPort = "25565" /\ hStatus = "idle"
    /\ hMessage = "detecting server automatically..."
    /\ hLobbyId = None /\ detecting = TRUE /\ detectedServer = None
    /\ detectionAttempts = 0 /\ detectionIntervalRef = FALSE /\ hIntervals = 0
    /\ hDetect = EmptyBag /\ hStart = EmptyBag /\ hSettle = EmptyBag /\ hFetch = EmptyBag
    /\ globalLogs = <<>> /\ logIdCounter = 0 /\ listenerInitialized = FALSE
    /\ listenPending = 0 /\ subscribed = 0 /\ showLogs = FALSE
    /\ logs = <<>> /\ created = <<>>
    /\ appIntervals = 1 /\ viewerIntervals = 1
    /\ cMetricsIntervals = 0 /\ hMetricsIntervals = 0
    /\ filter = "all" /\ panel = NoMetrics /\ fetched = <<>>
    /\ discoveryStatus = "idle" /\ lanServer = None /\ cDiscover = EmptyBag
    /\ calls = <<CheckCall>>
    /\ lastOp = <<"mount">>

NextApp ==
    \/ AppIntervalTick
    \/ \E ans \in LobbyAnswers : CheckActiveConnectionReturn(ans)

NextClient ==
    \/ NavigateClient
    \/ ClientOnBack
    \/ \E s \in LobbyIdInputs : ClientSetLobbyId(s)
    \/ HandleJoin
    \/ \E j \in BagToSet(cJoin) : HandleJoinResolved(j)
    \/ \E j \in BagToSet(cJoin), e \in ErrorTexts : HandleJoinRejected(j, e)
    \/ \E r \in BagToSet(cRestore), ans \in LobbyAnswers : RestoreStateReturn(r, ans)

Next ==
    \/ NextApp \/ NextClient \/ NextHost \/ NextLog
    \/ NextTelemetry
    \/ \E b \in ByteInputs : FetchMetricsReturn(b)
    \/ NextLifecycle
    \/ NextDiscover

\* the whole application
Spec == Init /\ [][Next]_vars

\* the Log Aggregator and its viewer, every payload and interleaving
SpecLog == Init /\ [][NextLog]_vars

\* the Log Aggregator over a long run of events
SpecLogFill == Init /\ [][NextLogFill]_vars

\* the Log Aggregator and its viewer over a long run of events, never cleared
SpecLogRun == Init /\ [][NextLogRun]_vars

\* App alone: the Connection Reconciler with its two callbacks, called by
\* any workflow with any arguments
NextReconciler ==
    \/ NextApp
    \/ \E l \in LobbyIdArgs, pt \in PortArgs : AdoptHost(l, pt)
    \/ \E l \in LobbyIdArgs : AdoptClient(l)
SpecReconciler == Init /\ [][NextReconciler]_vars

\* the application while the user visits only the Home and Client views
NextAppClient == NextApp \/ NextClient
SpecClient == Init /\ [][NextAppClient]_vars

\* the Home and Client views with the LAN discovery
NextAppDiscover == NextApp \/ NextClient \/ NextDiscover
SpecDiscover == Init /\ [][NextAppDiscover]_vars

\* the race of an adopt with the Reconciler: the user enters the Client view
\* and joins, and stays there; the Reconciler's queries are issued while no
\* role is adopted, and may be answered at any later time
NextRace ==
    \/ connectionState.type = None /\ AppIntervalTick
    \/ \E ans \in LobbyAnswers : CheckActiveConnectionReturn(ans)
    \/ NavigateClient
    \/ \E str \in LobbyIdInputs : ClientSetLobbyId(str)
    \/ HandleJoin
    \/ \E j \in BagToSet(cJoin) : HandleJoinResolved(j)
    \/ \E j \in BagToSet(cJoin), e \in ErrorTexts : HandleJoinRejected(j, e)
    \/ \E r \in BagToSet(cRestore), ans \in LobbyAnswers : RestoreStateReturn(r, ans)
SpecRace == Init /\ [][NextRace]_vars

\* the Home and Client views under fair scheduling: setInterval fires the
\* Reconciler's callback every 2000 ms for as long as it is registered, and
\* the backend answers every query it is asked
SpecConverge ==
    /\ Init /\ [][NextAppClient]_vars
    /\ WF_vars(AppIntervalTick)
    /\ WF_vars(\E ans \in LobbyAnswers : CheckActiveConnectionReturn(ans))
    /\ WF_vars(\E r \in BagToSet(cRestore), ans \in LobbyAnswers :
                  RestoreStateReturn(r, ans))

\* the application while the user visits only the Home and Host views
NextAppHost == NextApp \/ NextHost
SpecHost == Init /\ [][NextAppHost]_vars

\* the views, every periodic timer, and the teardown and re-mount of the
\* tree.  The workflows are those that register and clear timers: the Client
\* becomes connected by its resync, the Host detects and starts with the port
\* it shows; the user's typing, the join and the one-shot lobby id fetch
\* after a start are left to SpecClient and SpecHost.
NextTimers ==
    \/ NextApp
    \/ NavigateClient
    \/ ClientOnBack
    \/ \E r \in BagToSet(cRestore), ans \in LobbyAnswers : RestoreStateReturn(r, ans)
    \/ NavigateHost
    \/ HostOnBack
    \/ DetectionIntervalTick
    \/ \E d \in BagToSet(hDetect), ans \in DetectAnswers : PerformDetectionReturn(d, ans)
    \/ HandleStart
    \/ \E h \in BagToSet(hStart) : HandleStartResolved(h)
    \/ \E h \in BagToSet(hStart), err \in ErrorTexts : HandleStartRejected(h, err)
    \/ NextTelemetry
    \/ SyncLogsTick
    \/ NextLifecycle
SpecTimers == Init /\ [][NextTimers]_vars

\* the Log Aggregator over a long run of events while the viewer is opened,
\* closed, synced, cleared and re-mounted.  The viewer's copy keeps a
\* snapshot of the buffer, so the viewer's steps are explored only from the
\* states in which at most one event has been received or the buffer holds
\* at least 500 entries.
ViewerActs == logIdCounter <= 1 \/ Len(globalLogs) >= SliceKeep
NextLogViewer ==
    \/ ~listenerInitialized /\ InitLogListener
    \/ ListenResolved
    \/ ListenRejected
    \/ logIdCounter < MaxFillEvents /\ LogEvent(FillPayload)
    \/ ViewerActs /\ SyncLogsTick
    \/ ViewerActs /\ ClearLogs
    \/ \E b \in BOOLEAN : ViewerActs /\ SetShowLogs(b)
    \/ ViewerActs /\ AppTeardown
    \/ ViewerActs /\ AppMount
SpecLogViewer == Init /\ [][NextLogViewer]_vars

\* the Log Aggregator and its viewer, every payload and interleaving, while
\* the tree is unmounted and mounted again.  setInterval fires its callback
\* every 500 ms for as long as the interval is registered: the tick is
\* weakly fair.
NextLogLive ==
    \/ NextLogInit
    \/ \E ev \in LogPayloads : logIdCounter < MaxEvents /\ LogEvent(ev)
    \/ SyncLogsTick
    \/ ClearLogs
    \/ \E b \in BOOLEAN : SetShowLogs(b)
    \/ NextLifecycle
SpecLogLive == Init /\ [][NextLogLive]_vars /\ WF_vars(SyncLogsTick)

\* the Client view with its telemetry: the view becomes connected by its
\* resync, the metrics interval ticks and the answers are shown
NextMetrics ==
    \/ NextApp
    \/ NavigateClient
    \/ ClientOnBack
    \/ \E r \in BagToSet(cRestore), ans \in LobbyAnswers : RestoreStateReturn(r, ans)
    \/ ClientMetricsTick
    \/ \E b \in ByteInputs : FetchMetricsReturn(b)
SpecMetrics == Init /\ [][NextMetrics]_vars


-----------------------------------------------------------------------------
(* Properties of the Connection Reconciler *)

\* the last step was the continuation of a checkActiveConnection
Reconciled == lastOp[1] = "CheckActiveConnectionReturn"
ReconcileAnswer == lastOp[2]
ReconcilePrev == lastOp[3]
HostState12345 == [type |-> Some("host"), lobbyId |-> Some("12345"), port |-> Some(25565)]

\* C1 as stated: whatever the backend answers (lobby present, lobby absent,
\* query failure), ConnectionState.role after a reconcile equals role before it.
C1_ReconcileNeverChangesRole ==
    Reconciled => connectionState.type = ReconcilePrev.type

\* C1 amended: a reconcile answered with a lobby, or whose query failed,
\* leaves role as it was; a reconcile answered with no lobby sets role to
\* Unknown.  So a reconcile never gives role a value it did not have, except
\* Unknown.
C1_ReconcileKeepsOrClearsRole ==
    Reconciled =>
        IF ReconcileAnswer = Resolved(None)
        THEN connectionState.type = None
        ELSE connectionState.type = ReconcilePrev.type

\* C1 witness: a reconcile answered with a lobby has run on a state whose
\* role was Client
C1_Witness ==
    /\ Reconciled
    /\ ReconcileAnswer.ok /\ Truthy(ReconcileAnswer.val)
    /\ ReconcilePrev.type = Some("client")

\* C2: a reconcile that observes lobby id L changes only lobbyId, to the
\* decimal string of L; role and port keep their values.  From the empty
\* state the result is {Unknown, "12345", none}; from {Host, "12345", 25565}
\* the result is that same state.
C2_ReconcilePresentSetsOnlyLobbyId ==
    /\ (Reconciled /\ ReconcileAnswer.ok /\ Truthy(ReconcileAnswer.val)) =>
          /\ connectionState.type = ReconcilePrev.type
          /\ connectionState.port = ReconcilePrev.port
          /\ connectionState.lobbyId = Some(DecStr(ReconcileAnswer.val[1]))
    /\ (Reconciled /\ ReconcileAnswer = Resolved(Some(12345))
                   /\ ReconcilePrev = EmptyConnection) =>
          connectionState = [type |-> None, lobbyId |-> Some("12345"), port |-> None]
    /\ (Reconciled /\ ReconcileAnswer = Resolved(Some(12345))
                   /\ ReconcilePrev = HostState12345) =>
          connectionState = HostState12345

\* C2 witness: the second scenario has happened
C2_Witness ==
    /\ Reconciled
    /\ ReconcileAnswer = Resolved(Some(12345))
    /\ ReconcilePrev = HostState12345

\* C3: a reconcile that observes no active lobby leaves ConnectionState
\* fully empty, whatever role, lobbyId and port were before.
C3_ReconcileAbsentClearsAll ==
    (Reconciled /\ ReconcileAnswer = Resolved(None)) =>
        connectionState = [type |-> None, lobbyId |-> None, port |-> None]

\* C3 witness: a no-lobby answer has been merged into {Host, "12345", 25565}
C3_Witness ==
    /\ Reconciled
    /\ ReconcileAnswer = Resolved(None)
    /\ ReconcilePrev = HostState12345

\* C4: a reconcile whose query failed leaves ConnectionState, the view and
\* both workflows (status and message among them) exactly as they were, and
\* after it the interval's next tick can poll again.
C4_FailedPollKeepsState ==
    /\ [][(lastOp'[1] = "CheckActiveConnectionReturn" /\ lastOp'[2] = Rejected)
            => UNCHANGED <<connectionState, view, clientVars, hostVars>>]_vars
    /\ []((Reconciled /\ ReconcileAnswer = Rejected) => ENABLED AppIntervalTick)

\* C4 witness: a failed reconcile has run while the Client workflow showed a
\* join error and ConnectionState held a lobby id
C4_Witness ==
    /\ Reconciled
    /\ ReconcileAnswer = Rejected
    /\ ReconcilePrev.lobbyId # None
    /\ connectionState.lobbyId # None
    /\ view = "client" /\ cStatus = "error"

\* C5 as stated: at any time at most one Reconciler get_lobby_id query is in
\* flight.
C5_AtMostOnePollInFlight == checkPending <= 1

\* C6: each adopt callback overwrites all three fields with its arguments,
\* whatever the state was; the Client callback leaves port absent.
C6_AdoptOverwritesAll ==
    /\ lastOp[1] = "HostOnConnectionChange" =>
          connectionState =
              [type |-> Some("host"), lobbyId |-> lastOp[2], port |-> lastOp[3]]
    /\ lastOp[1] = "ClientOnConnectionChange" =>
          connectionState =
              [type |-> Some("client"), lobbyId |-> lastOp[2], port |-> None]

\* C6 witness: the Client callback has run on a state that had a port
C6_Witness ==
    /\ lastOp[1] = "ClientOnConnectionChange"
    /\ lastOp[3].port # None
    /\ connectionState.port = None


-----------------------------------------------------------------------------
(* Properties of the workflows' completion events *)

IsAdoptWithId(c) == c[1] = "onConnectionChange" /\ c[2] # None
\* the adopt(Client, L) calls with a lobby id that the last step made
AdoptCalls == SelectSeq(calls, IsAdoptWithId)

RestoreHit ==
    /\ lastOp[1] = "RestoreStateReturn"
    /\ lastOp[3].ok /\ Truthy(lastOp[3].val)

C8_HostStartReachesReconciler ==
    (/\ lastOp[1] = "LobbyFetchReturn"
     /\ lastOp[2].live
     /\ lastOp[3].ok /\ Truthy(lastOp[3].val)) =>
        /\ connectionState.type = Some("host")
        /\ connectionState.lobbyId = hLobbyId
        /\ connectionState.port # None

-----------------------------------------------------------------------------
(* Properties of the Log Aggregator *)

\* C9 as stated: the buffer holds at most 500 entries in every reachable
\* state.
C9_BufferAtMost500 == Len(globalLogs) <= 500

StrictlyIncreasing(s) == \A i \in 1..(Len(s) - 1) : s[i] < s[i + 1]
EntryIds(s) == [i \in 1..Len(s) |-> s[i].id]

\* C10: the ids of the entries ever created are strictly increasing in
\* creation order (so none is reused), also across eviction and clear(); the
\* buffer holds its entries in that order, and its newest entry is the entry
\* created last.
C10_SequenceIdsStrictlyIncrease ==
    /\ StrictlyIncreasing(created)
    /\ StrictlyIncreasing(EntryIds(globalLogs))
    /\ lastOp[1] = "LogEvent" =>
          globalLogs[Len(globalLogs)].id = created[Len(created)]

\* C10 witness: 502 entries have been created and the buffer, full, no longer
\* holds the first of them
C10_Witness ==
    /\ Len(created) = 502
    /\ Len(globalLogs) = 501
    /\ globalLogs[1].id = 1

ListenCall == <<"listen", "log://log">>

\* C11: clear() leaves both the process-wide buffer and the viewer's copy
\* empty, and changes neither the sequence counter nor the subscription latch
\* (nor the subscription itself).
C11_ClearEmptiesBothKeepsCounter ==
    [][lastOp'[1] = "ClearLogs" =>
          /\ globalLogs' = <<>>
          /\ logs' = <<>>
          /\ UNCHANGED <<logIdCounter, listenerInitialized, listenPending,
                         subscribed>>]_vars

\* C11 witness: the log was cleared after two events had been numbered, and
\* the counter still stands at 2 with the latch set
C11_Witness ==
    /\ lastOp[1] = "ClearLogs"
    /\ globalLogs = <<>> /\ logs = <<>>
    /\ logIdCounter = 2 /\ Len(created) = 2
    /\ listenerInitialized /\ subscribed = 1

\* C12 as stated: once more than 500 events have arrived with no clear(), the
\* buffer holds exactly the last 500 of them in arrival order, and an export
\* of the synced view has exactly 500 lines.
C12_OverflowKeepsLast500 ==
    (Len(created) > 500 /\ logs = globalLogs) =>
        /\ Len(globalLogs) = 500
        /\ EntryIds(globalLogs) = SliceLast(created, 500)
        /\ lastOp[1] = "DownloadLogs" => Len(calls[1][2]) = 500

\* C13: the stream is subscribed to at most once: at most one listen call is
\* ever pending or established, the latch once set stays set, an invocation
\* of initLogListener that finds the latch set makes no call and changes
\* nothing, and only an invocation that finds it unset subscribes.
C13_SubscribeAtMostOnce ==
    /\ [](listenPending + subscribed <= 1)
    /\ [][listenerInitialized =>
            /\ listenerInitialized'
            /\ listenPending' <= listenPending
            /\ ListenCall \notin {calls'[i] : i \in 1..Len(calls')}
            /\ lastOp'[1] = "InitLogListener" =>
                  calls' = <<>> /\ UNCHANGED logVars]_vars
    /\ [][(~listenerInitialized /\ lastOp'[1] = "InitLogListener") =>
            calls' = <<ListenCall>> /\ listenPending' = 1]_vars

\* C13 witness: initLogListener was invoked again while the first listen call
\* was still pending, and made no call
C13_Witness ==
    /\ lastOp[1] = "InitLogListener"
    /\ calls = <<>>
    /\ listenPending = 1 /\ subscribed = 0

\* C14: a failed listen call leaves the latch set and the buffer, the viewer
\* and every other component as they were; from then on no invocation of
\* initLogListener subscribes.
C14_FailedSubscribeKeepsLatch ==
    /\ [][lastOp'[1] = "ListenRejected" =>
            /\ listenerInitialized'
            /\ UNCHANGED <<globalLogs, logs, logIdCounter, subscribed,
                           appVars, clientVars, hostVars>>]_vars
    /\ [][(listenerInitialized /\ listenPending = 0 /\ subscribed = 0) =>
            /\ listenerInitialized'
            /\ listenPending' = 0 /\ subscribed' = 0
            /\ globalLogs' = globalLogs]_vars

\* C14 witness: after the listen call failed, initLogListener was invoked
\* again and did not subscribe
C14_Witness ==
    /\ lastOp[1] = "InitLogListener"
    /\ calls = <<>>
    /\ listenerInitialized
    /\ listenPending = 0 /\ subscribed = 0

-----------------------------------------------------------------------------
(* Properties of the Host and Client workflows *)

\* the calls the last step made, as a set
CallsMade == {calls[i] : i \in 1..Len(calls)}
DetectCall == <<"detect_minecraft_server">>

\* C15: once a probe of the mounted Host instance has returned a server, the
\* detection interval is cleared and stays cleared, and no step of that
\* instance (timer tick, start, start failure, a late probe's answer) issues
\* a detection probe; the detected server is never forgotten.
C15_NoProbeAfterDetection ==
    /\ [](detectedServer # None => hIntervals = 0 /\ ~detectionIntervalRef)
    /\ [][(view = "host" /\ detectedServer # None /\ view' = "host") =>
            /\ detectedServer' # None
            /\ DetectCall \notin {calls'[i] : i \in 1..Len(calls')}
            /\ Pending(hDetect') <= Pending(hDetect)]_vars

\* C15 witness: after a probe had succeeded the user started the host, the
\* start failed, and no probe was issued
C15_Witness ==
    /\ lastOp[1] = "HandleStartRejected"
    /\ lastOp[2].live
    /\ detectedServer # None
    /\ hStatus = "error"
    /\ calls = <<>>

\* C16: handleJoin with an empty lobby id changes nothing: the workflow's
\* status, message and pending joins, ConnectionState and the view are as
\* before, and neither join_lobby nor the parent's callback is called.
C16_EmptyJoinIsNoOp ==
    [][(lastOp'[1] = "HandleJoin" /\ lastOp'[2] = "") =>
          /\ UNCHANGED <<cStatus, cMessage, cLobbyId, cJoin, cRestore,
                         connectionState, view, checkPending>>
          /\ calls' = <<>>]_vars

\* C16 witness: after a failed join the user emptied the input and handleJoin
\* ran; the error is still shown
C16_Witness ==
    /\ lastOp = <<"HandleJoin", "">>
    /\ cStatus = "error" /\ cMessage # ""
    /\ calls = <<>>

\* C17: when the resync query of the mounted Client view is answered with a
\* lobby id, the workflow is Connected and shows that id (as a decimal
\* string) with no message, and the step calls no join_lobby and adds no
\* pending join.
C17_ResyncConnectsWithoutJoin ==
    /\ []((RestoreHit /\ lastOp[2].live) =>
            /\ cStatus = "connected"
            /\ cLobbyId = DecStr(lastOp[3].val[1])
            /\ cMessage = ""
            /\ \A c \in CallsMade : c[1] # "join_lobby")
    /\ [][lastOp'[1] = "RestoreStateReturn" => cJoin' = cJoin]_vars

\* C17 witness: the view was entered with an empty input, the backend
\* reported lobby 12345, and the workflow is Connected with no join pending
C17_Witness ==
    /\ RestoreHit /\ lastOp[2].live
    /\ lastOp[3] = Resolved(Some(12345))
    /\ cStatus = "connected" /\ cLobbyId = "12345"
    /\ cJoin = EmptyBag

\* C18: handleJoin with a non-empty id leaves the workflow Connecting and
\* calls join_lobby exactly once, with that id; when the call resolves the
\* (still mounted) workflow is Connected, the parent's callback is called
\* with the id, and ConnectionState is {client, id, no port}.
C18_JoinConnectsAndAdoptsClient ==
    /\ (lastOp[1] = "HandleJoin" /\ lastOp[2] # "") =>
          /\ cStatus = "connecting"
          /\ calls = << <<"join_lobby", lastOp[2]>> >>
    /\ lastOp[1] = "HandleJoinResolved" =>
          /\ lastOp[2].live => cStatus = "connected"
          /\ SelectSeq(calls, IsAdoptWithId) =
                 << <<"onConnectionChange", Some(lastOp[2].lobbyId)>> >>
          /\ connectionState = [type |-> Some("client"),
                                lobbyId |-> Some(lastOp[2].lobbyId),
                                port |-> None]

\* C18 witness: a join of lobby 12345 has resolved in the mounted view
C18_Witness ==
    /\ lastOp[1] = "HandleJoinResolved"
    /\ lastOp[2] = [lobbyId |-> "12345", live |-> TRUE]
    /\ cStatus = "connected"
    /\ connectionState.lobbyId = Some("12345")

\* C19 as stated: when join_lobby fails the workflow is Error with the
\* failure detail in its message, and ConnectionState is all-empty: role
\* Unknown, no lobby id, no port.
C19_FailedJoinClearsConnection ==
    lastOp[1] = "HandleJoinRejected" =>
        /\ lastOp[2].live =>
              cStatus = "error" /\ cMessage = "join failed: " \o lastOp[3]
        /\ connectionState = [type |-> None, lobbyId |-> None, port |-> None]

\* C20 as stated, its first part: when start_host fails in the mounted Host
\* view, the workflow's status is Error and its status message is the failure
\* detail.
C20_StartFailureShowsDetail ==
    (lastOp[1] = "HandleStartRejected" /\ lastOp[2].live) =>
        /\ hStatus = "error"
        /\ hMessage = "start failed: " \o lastOp[3]

\* C21 as stated: while the Client view stays mounted, a workflow in Error
\* keeps its status and its failure message through every step that is not
\* the user's join: no poll, resync or timer changes them.
C21_ErrorLeftOnlyByJoin ==
    [][(view = "client" /\ cStatus = "error" /\ view' = "client") =>
          \/ lastOp'[1] = "HandleJoin"
          \/ cStatus' = "error" /\ cMessage' = cMessage]_vars

-----------------------------------------------------------------------------
(* Properties of the timers *)

TimerTicks == {"AppIntervalTick", "SyncLogsTick", "DetectionIntervalTick",
               "ClientMetricsTick", "HostMetricsTick"}

\* C22: no periodic timer outlives its owner.  While the Host view is not
\* mounted no detection or Host metrics interval is registered and none
\* ticks; the same for the Client's metrics interval; after the teardown of
\* the tree no reconcile interval and no viewer sync interval is registered,
\* no timer ticks and no backend call is made.
C22_TimersCancelledOnTeardown ==
    /\ [](view # "host" => hIntervals = 0 /\ hMetricsIntervals = 0)
    /\ [](view # "client" => cMetricsIntervals = 0)
    /\ [](view = "closed" => appIntervals = 0 /\ viewerIntervals = 0)
    /\ [][(view # "host" /\ view' # "host") =>
            lastOp'[1] \notin {"DetectionIntervalTick", "HostMetricsTick"}]_vars
    /\ [][(view # "client" /\ view' # "client") =>
            lastOp'[1] # "ClientMetricsTick"]_vars
    /\ [][(view = "closed" /\ view' = "closed") =>
            /\ lastOp'[1] \notin TimerTicks
            /\ calls' = <<>> /\ fetched' = <<>>]_vars

\* C22 witness: the Host view was left while Running (its start call had
\* resolved), and its metrics interval is gone
C22_Witness ==
    /\ lastOp[1] = "HostOnBack"
    /\ Pending(hSettle) > 0
    /\ hMetricsIntervals = 0 /\ hIntervals = 0

-----------------------------------------------------------------------------
(* Properties of late results and of re-entered views *)

\* C23 as stated: the answer of a detection probe that arrives in the mounted
\* Host view after handleStart set the workflow Running, or after an earlier
\* probe had detected a server, changes neither the port, nor the status
\* message, nor the detected server.
C23_LateProbeChangesNothing ==
    [][(/\ lastOp'[1] = "PerformDetectionReturn"
        /\ view = "host"
        /\ (hStatus = "running" \/ detectedServer # None)) =>
          UNCHANGED <<hPort, hMessage, detectedServer>>]_vars

\* C24 as stated, for the Host: when the Host view is entered again after it
\* was left Running (a start of the earlier instance had resolved and its
\* lobby id fetch is not finished) and the Reconciler holds the backend's
\* lobby id, the new instance does not start detection: it makes no probe
\* and is not detecting.
C24_HostReentryResumes ==
    (/\ lastOp[1] = "NavigateHost"
     /\ Pending(hSettle) + Pending(hFetch) > 0
     /\ connectionState.lobbyId # None) =>
        /\ DetectCall \notin CallsMade
        /\ ~detecting
        /\ hIntervals = 0

\* C29 as stated: while the mounted Host workflow is in Error nothing runs
\* by itself: no detection timer is registered, no probe is started, the
\* workflow is not detecting, and the status message is the start failure's
\* detail.
C29_ErrorRunsNothing ==
    (view = "host" /\ hStatus = "error") =>
        /\ hIntervals = 0
        /\ ~detecting
        /\ DetectCall \notin CallsMade
        /\ \E err \in ErrorTexts : hMessage = "start failed: " \o err

\* C30: handleStart leaves the workflow Running with the detection interval
\* cleared while its start_host call is still pending; and in every state in
\* which the mounted workflow is Running no detection interval is registered
\* and the step that led there issued no probe.
C30_StartCancelsDetection ==
    /\ [](lastOp[1] = "HandleStart" =>
            /\ hStatus = "running"
            /\ hIntervals = 0 /\ ~detectionIntervalRef
            /\ Pending(hStart) > 0
            /\ calls = << <<"start_host", ParseInt(lastOp[2])>> >>)
    /\ []((view = "host" /\ hStatus = "running") => hIntervals = 0)
    /\ [][(view' = "host" /\ hStatus' = "running") =>
            /\ lastOp'[1] # "DetectionIntervalTick"
            /\ DetectCall \notin {calls'[i] : i \in 1..Len(calls')}
            /\ Pending(hDetect') <= Pending(hDetect)]_vars

\* C30 witness: start was clicked while detecting, with a probe in flight and
\* no server found
C30_Witness ==
    /\ lastOp[1] = "HandleStart"
    /\ detectedServer = None
    /\ detectionAttempts > 0
    /\ \E d \in BagToSet(hDetect) : d.live
    /\ hStatus = "running"

\* C25 as stated: the text written by downloadLogs has exactly one
\* `[timestamp] [LEVEL] message` line per entry of the viewer's copy that
\* passes the selected level filter, in the copy's order.
C25_ExportIsFilteredView ==
    lastOp[1] = "DownloadLogs" =>
        calls = << <<"download", LogText(FilteredLogs(logs, filter))>> >>

-----------------------------------------------------------------------------
(* Properties of the telemetry *)

\* n hundredths written with two decimals
Hundredths(n) ==
    DecStr(n \div 100) \o "." \o DecStr((n \div 10) % 10) \o DecStr(n % 10)

\* b / unit rounded to the nearest hundredth (upwards on a tie), written
\* with two decimals
TwoDecimals(b, unit) ==
    LET q == (100 * b) \div unit
        r == (100 * b) % unit
    IN Hundredths(IF 2 * r >= unit THEN q + 1 ELSE q)

\* C26: what the PerformancePanel shows for a byte count b is "<b> B" below
\* 1024, b / 1024 with two decimals and " KB" from 1024 and below 1048576,
\* and b / 1048576 with two decimals and " MB" from 1048576; 500 is shown as
\* "500 B", 2048 as "2.00 KB" and 5242880 as "5.00 MB".
C26_FormatBytesThresholds ==
    panel.metrics # None =>
        LET b == panel.metrics[1]
        IN /\ b < 1024 => panel.bytesSent = DecStr(b) \o " B"
           /\ (1024 <= b /\ b < 1048576) =>
                 panel.bytesSent = TwoDecimals(b, 1024) \o " KB"
           /\ b >= 1048576 => panel.bytesSent = TwoDecimals(b, 1048576) \o " MB"
           /\ b = 500 => panel.bytesSent = "500 B"
           /\ b = 2048 => panel.bytesSent = "2.00 KB"
           /\ b = 5242880 => panel.bytesSent = "5.00 MB"
           /\ b = 1023 => panel.bytesSent = "1023 B"
           /\ b = 1024 => panel.bytesSent = "1.00 KB"
           /\ b = 1048575 => panel.bytesSent = "1024.00 KB"
           /\ b = 1048576 => panel.bytesSent = "1.00 MB"

\* C26 witness: the connected Client has received 2048 bytes sent and shows
\* them in KB
C26_Witness ==
    /\ lastOp = <<"FetchMetricsReturn", 2048>>
    /\ view = "client" /\ cStatus = "connected"
    /\ panel = [metrics |-> Some(2048), bytesSent |-> "2.00 KB"]

-----------------------------------------------------------------------------
(* Properties of the Log Aggregator and its viewers *)

\* the steps of a viewer that are not clear()
ViewerSteps ==
    {"SetShowLogs", "SyncLogsTick", "SetFilter", "DownloadLogs", "AppTeardown",
     "AppMount"}

\* C27: in every state the buffer's entries are, in creation order and
\* without repeats, the entries created last; an event appends one entry
\* made of its payload to a suffix of the buffer that drops at most the
\* oldest entry, and none while the buffer holds fewer than 500; clear()
\* empties the buffer; opening, closing, syncing, exporting from, unmounting
\* or mounting a viewer leaves the buffer and the id counter as they are.
C27_BufferIsSuffixOfEvents ==
    /\ [](/\ Len(globalLogs) <= Len(created)
          /\ EntryIds(globalLogs) =
                SubSeq(created, Len(created) - Len(globalLogs) + 1, Len(created))
          /\ \A i \in 1..(Len(globalLogs) - 1) :
                globalLogs[i].id < globalLogs[i + 1].id)
    /\ [][lastOp'[1] = "LogEvent" =>
            LET n == Len(globalLogs')
                dropped == Len(globalLogs) + 1 - n
            IN /\ n >= 1
               /\ dropped \in {0, 1}
               /\ Len(globalLogs) < 500 => dropped = 0
               /\ SubSeq(globalLogs', 1, n - 1) =
                     SubSeq(globalLogs, dropped + 1, Len(globalLogs))
               /\ globalLogs'[n].message = lastOp'[2].message
               /\ globalLogs'[n].timestamp = lastOp'[2].timestamp
               /\ Len(created') = Len(created) + 1]_vars
    /\ [][lastOp'[1] = "ClearLogs" => globalLogs' = <<>>]_vars
    /\ [][lastOp'[1] \in ViewerSteps =>
            UNCHANGED <<globalLogs, logIdCounter, created, subscribed>>]_vars

\* C27 witness: 502 events were received, the oldest entry has been evicted,
\* and the tree has been unmounted and mounted again
C27_Witness ==
    /\ lastOp[1] = "AppMount"
    /\ Len(created) = 502
    /\ Len(globalLogs) = 501
    /\ globalLogs[1].id = 1 /\ globalLogs[501].id = 501
    /\ logs = globalLogs

\* the entry with id i is in the sequence s of entries
HasEntry(s, i) == \E k \in 1..Len(s) : s[k].id = i

\* C28: under a fair sync timer, whenever the entry with id i is in the
\* buffer, later it is in the viewer's copy, or it has left the buffer, or
\* the viewer stays unmounted from some moment on; and a viewer that has
\* just been mounted holds the buffer's contents, the entries received while
\* no viewer was mounted included.
C28_ViewerEventuallyConsistent ==
    /\ \A i \in 0..(MaxEvents - 1) :
          [](HasEntry(globalLogs, i) =>
                <>(\/ HasEntry(logs, i)
                   \/ ~HasEntry(globalLogs, i)
                   \/ [](view = "closed")))
    /\ [](lastOp[1] = "AppMount" => logs = globalLogs)

\* C28 witness: a viewer was mounted while the buffer held entries, and
\* shows them
C28_Witness ==
    /\ lastOp[1] = "AppMount"
    /\ Len(globalLogs) >= 2
    /\ HasEntry(logs, 0) /\ HasEntry(logs, 1)

-----------------------------------------------------------------------------
(* Properties of the steady states *)

HostLobbyCall == <<"get_lobby_id", "Host">>

\* C31: a resolved start_host arms exactly one settling timer and fetches
\* nothing yet; nothing else arms one; the Host's lobby id query is issued
\* only by a settling timer that fires, once, and the timer is gone; the
\* fetch's result, whatever it is, arms no timer, issues no call and leaves
\* the status as it is; and while a timer or a fetch of the mounted instance
\* is outstanding the status is Running.
C31_OneLobbyFetchPerStart ==
    /\ [][/\ lastOp'[1] = "HandleStartResolved" =>
               /\ Pending(hSettle') = Pending(hSettle) + 1
               /\ Pending(hFetch') = Pending(hFetch)
               /\ calls' = <<>>
          /\ Pending(hSettle') > Pending(hSettle) =>
               lastOp'[1] = "HandleStartResolved"
          /\ (\/ HostLobbyCall \in {calls'[i] : i \in 1..Len(calls')}
              \/ Pending(hFetch') > Pending(hFetch)) =>
               /\ lastOp'[1] = "SettleTimeout"
               /\ calls' = <<HostLobbyCall>>
               /\ Pending(hSettle') = Pending(hSettle) - 1
               /\ Pending(hFetch') = Pending(hFetch) + 1
          /\ lastOp'[1] = "LobbyFetchReturn" =>
               /\ Pending(hFetch') = Pending(hFetch) - 1
               /\ Pending(hSettle') = Pending(hSettle)
               /\ Pending(hStart') = Pending(hStart)
               /\ calls' = <<>>
               /\ hStatus' = hStatus]_vars
    /\ [](\A t \in BagToSet(hSettle) \cup BagToSet(hFetch) :
             t.live => view = "host" /\ hStatus = "running")
    /\ []((lastOp[1] = "LobbyFetchReturn" /\ lastOp[2].live) =>
             view = "host" /\ hStatus = "running")

\* C31 witness: the one lobby id fetch of a running Host has failed; the
\* workflow is Running without a lobby id and nothing is outstanding
C31_Witness ==
    /\ lastOp[1] = "LobbyFetchReturn"
    /\ lastOp[2].live /\ ~lastOp[3].ok
    /\ view = "host" /\ hStatus = "running" /\ hLobbyId = None
    /\ Pending(hStart) + Pending(hSettle) + Pending(hFetch) = 0

HostSteady == view = "host" /\ hStatus = "running"
ClientSteady == view = "client" /\ cStatus = "connected"

\* C32 as stated: the step by which the Host becomes Running issues a
\* telemetry fetch, and so does the step by which the Client becomes
\* Connected; a tick of a telemetry timer fetches only while its workflow is
\* in that state.
C32_TelemetryStartsImmediately ==
    [][/\ (~HostSteady /\ HostSteady') => HostFetch \in {fetched'[i] : i \in 1..Len(fetched')}
       /\ (~ClientSteady /\ ClientSteady') =>
             ClientFetch \in {fetched'[i] : i \in 1..Len(fetched')}
       /\ lastOp'[1] = "HostMetricsTick" => HostSteady
       /\ lastOp'[1] = "ClientMetricsTick" => ClientSteady]_vars

\* C33: in every reachable state at most one detection interval is
\* registered; one is registered only for the mounted Host instance, and
\* exactly when the instance's ref holds it.
C33_AtMostOneDetectionTimer ==
    /\ hIntervals \in {0, 1}
    /\ hIntervals = 1 <=> detectionIntervalRef
    /\ hIntervals = 1 => view = "host" /\ hStatus # "running" /\ detectedServer = None

\* C33 witness: a start failed with no server detected, the detection effect
\* ran again after the earlier runs (mount, manual start), and one timer is
\* registered
C33_Witness ==
    /\ lastOp[1] = "HandleStartRejected"
    /\ hStatus = "error"
    /\ detectionAttempts >= 2
    /\ hIntervals = 1

\* C34 as stated: the Client's own lobby id query is issued by entering the
\* view and by no other step.
C34_ResyncOncePerEntry ==
    [][(RestoreCall \in {calls'[i] : i \in 1..Len(calls')}) =>
       (lastOp'[1] = "NavigateClient")]_vars

-----------------------------------------------------------------------------
(* Properties of the LAN discovery *)

DiscoverSteps == {"HandleDiscover", "HandleDiscoverReturn"}

\* the probe of the last step belonged to the mounted instance and found a
\* server
DiscoveryFound(op) ==
    op[1] = "HandleDiscoverReturn" /\ op[2].live /\ op[3].ok /\ op[3].val # None

\* the probe of the last step belonged to the mounted instance and failed or
\* found nothing
DiscoveryMissed(op) ==
    op[1] = "HandleDiscoverReturn" /\ op[2].live /\ (~op[3].ok \/ op[3].val = None)

\* C35: a step of the discover action, whatever the probe's outcome, leaves
\* the Client status, its message, ConnectionState and the pending joins and
\* resyncs as they are, and calls neither the backend's join nor the parent;
\* a probe that fails or finds nothing ends in not_found, one that finds a
\* server in found with that server.
C35_DiscoverLeavesJoinWorkflow ==
    [][lastOp'[1] \in DiscoverSteps =>
          /\ UNCHANGED <<cStatus, cMessage, connectionState, view, cRestore, cJoin>>
          /\ lastOp'[1] = "HandleDiscover" =>
                calls' = <<DiscoverCall>> /\ discoveryStatus' = "scanning"
          /\ lastOp'[1] = "HandleDiscoverReturn" => calls' = <<>>
          /\ DiscoveryMissed(lastOp') =>
                discoveryStatus' = "not_found" /\ lanServer' = lanServer
          /\ DiscoveryFound(lastOp') =>
                discoveryStatus' = "found" /\ lanServer' = lastOp'[3].val]_vars

\* C35 witness: a probe failed while a join was in flight; the discovery is
\* not_found and the workflow is still connecting
C35_Witness ==
    /\ lastOp[1] = "HandleDiscoverReturn"
    /\ lastOp[2].live /\ ~lastOp[3].ok
    /\ discoveryStatus = "not_found"
    /\ cStatus = "connecting" /\ Pending(cJoin) > 0

\* C36 as stated: a discovery that finds a server while the lobby id input
\* is empty leaves the input filled, and no other step of the discover
\* action changes the input.
C36_DiscoverPrefillsInput ==
    [][/\ (DiscoveryFound(lastOp') /\ cLobbyId = "") => cLobbyId' # ""
       /\ (lastOp'[1] \in DiscoverSteps /\ ~DiscoveryFound(lastOp')) =>
             cLobbyId' = cLobbyId]_vars

-----------------------------------------------------------------------------
(* Properties of the log entries *)

\* C37: a received event adds exactly one entry to the buffer and to the
\* entries created; the entry is the buffer's last, its message is the
\* event's, and its level is the event's level when the event has a
\* non-empty one and "INFO" when the level is missing or empty.
C37_LevelDefaultsToInfo ==
    /\ [][lastOp'[1] = "LogEvent" =>
             /\ Len(created') = Len(created) + 1
             /\ Len(globalLogs') = Len(SliceLast(globalLogs, 500)) + 1]_vars
    /\ [](lastOp[1] = "LogEvent" =>
             /\ Len(globalLogs) > 0
             /\ LET entry == globalLogs[Len(globalLogs)]
                    level == lastOp[2].level
                IN /\ entry.message = lastOp[2].message
                   /\ level \in {None, Some("")} => entry.level = "INFO"
                   /\ level \notin {None, Some("")} => Some(entry.level) = level)

\* C37 witness: an event with an empty level was received after an event
\* with level ERROR; both are in the buffer, the first as ERROR, the second
\* as INFO
C37_Witness ==
    /\ lastOp[1] = "LogEvent"
    /\ lastOp[2].level = Some("")
    /\ Len(globalLogs) = 2
    /\ globalLogs[1].level = "ERROR"
    /\ globalLogs[2].level = "INFO"

-----------------------------------------------------------------------------
(* Properties of the adopted role *)

\* C38 as stated: once ConnectionState holds the Client role with a lobby
\* id, every later state holds the Client role, whatever the queries that
\* were issued before the adopt are answered.
C38_AdoptedRoleSurvives ==
    [][(connectionState.type = Some("client") /\ connectionState.lobbyId # None) =>
       (connectionState'.type = Some("client"))]_vars

\* C39 as stated: a step that starts with the mounted Client Connected and
\* does not unmount the view leaves it Connected.
C39_ConnectedIsAbsorbing ==
    [][(ClientSteady /\ view' = "client") => (cStatus' = "connected")]_vars

\* the last step was not an answer that reports a session or fails, nor a
\* step of a join, and no join is in flight
BackendIdle ==
    /\ lastOp[1] = "CheckActiveConnectionReturn" => lastOp[2] = Resolved(None)
    /\ lastOp[1] = "RestoreStateReturn" => lastOp[3] = Resolved(None)
    /\ lastOp[1] \notin {"HandleJoin", "HandleJoinResolved", "HandleJoinRejected"}
    /\ Pending(cJoin) = 0

\* C40: under a fair reconcile timer and a backend that answers, if from
\* some point on every lobby id query is answered with no session and no
\* join is invoked or in flight, then from some point on ConnectionState is
\* all-empty.
C40_ConvergesToEmpty ==
    <>[]BackendIdle => <>[](connectionState = EmptyConnection)

\* C40 witness: with no join in flight a Reconciler query answered with no
\* session has cleared a ConnectionState that held the Client role and a
\* lobby id
C40_Witness ==
    /\ lastOp[1] = "CheckActiveConnectionReturn"
    /\ lastOp[2] = Resolved(None)
    /\ lastOp[3].type = Some("client") /\ lastOp[3].lobbyId # None
    /\ connectionState = EmptyConnection
    /\ Pending(cJoin) = 0

=============================================================================
